---------------------------- MODULE Spec2Model ----------------------------
(***************************************************************************)
(* State-machine model of the remittance services of the repository:       *)
(*   wook-3  : corridors + remittances API (routers/, database.py,         *)
(*             dependencies.py, schemas.py)                                *)
(*   week-2  : the earlier single-collection remittance API                *)
(*                                                                         *)
(* Encodings used throughout:                                              *)
(*   - a Python str is a sequence of one-character strings, so that        *)
(*     lower() and the `in` substring test can be computed;                *)
(*   - money is an integer number of cents (500.00 -> 50000), a fee        *)
(*     percentage an integer number of tenths of a percent (3.5 -> 35),    *)
(*     and rounding is computed on the exact decimal value;                *)
(*   - a datetime is the number of minutes since 2024-01-01 00:00;         *)
(*   - a dict is a function; insertion order of both stores is ascending   *)
(*     id order, because ids only grow and re-assigning an existing key    *)
(*     keeps its position;                                                 *)
(*   - a request body dumped with exclude_unset=True is a function whose   *)
(*     DOMAIN is the set of fields the client sent; a JSON null sent for   *)
(*     a numeric field is the value None.                                  *)
(***************************************************************************)
EXTENDS Integers, Sequences, FiniteSets, TLC

VARIABLES
  corridors_db,        \* wook-3 database.py: corridors_db
  next_corridor_id,    \* wook-3 database.py: next_corridor_id
  remittances_db,      \* wook-3 database.py: remittances_db
  next_remittance_id,  \* wook-3 database.py: next_remittance_id
  now,                 \* the value datetime.now() returns
  request,             \* the request being answered
  response,            \* the answer to it
  handled,             \* number of requests answered so far
  w2_remittances_db,   \* week-2 database.py: remittances_db
  _id_counter,         \* week-2 database.py: _id_counter
  items,               \* the record list handed to the query engine
  filters,             \* dependencies.RemittanceFilters of the query
  result,              \* what the query engine returned
  tasks,               \* the requests in flight on the event loop
  running              \* the request whose handler holds the event loop

vars == <<corridors_db, next_corridor_id, remittances_db, next_remittance_id,
          now, request, response, handled, w2_remittances_db, _id_counter,
          items, filters, result, tasks, running>>

\* the week-2 application's state
week2 == <<w2_remittances_db, _id_counter>>

\* the query engine's input and output
query == <<items, filters, result>>

store == <<corridors_db, next_corridor_id, remittances_db, next_remittance_id>>

\* the event loop
loop == <<tasks, running>>

-----------------------------------------------------------------------------
(* Bounds of the model *)

\* number of requests a behaviour sends
MaxRequests == 2
\* number of times the clock advances
MaxTicks == 1
\* length of the record list a query is run on
MaxItems == 2

-----------------------------------------------------------------------------
(* Values *)

\* Python None, where it can stand in a numeric field
None == -1

HTTP_200_OK == 200
HTTP_201_CREATED == 201
HTTP_204_NO_CONTENT == 204
HTTP_400_BAD_REQUEST == 400
HTTP_404_NOT_FOUND == 404
\* what the framework answers when a handler raises
HTTP_500_INTERNAL_SERVER_ERROR == 500

\* the years the calendar below covers
Years == 2024 .. 2027

IsLeap(year) == year % 4 = 0 /\ (year % 100 # 0 \/ year % 400 = 0)

DaysInMonth(year, month) ==
  IF month = 2 THEN (IF IsLeap(year) THEN 29 ELSE 28)
  ELSE IF month \in {4, 6, 9, 11} THEN 30 ELSE 31

RECURSIVE DaysBeforeYear(_)
\* days from 1 January 2024 to 1 January of `year`
DaysBeforeYear(year) ==
  IF year = 2024 THEN 0
  ELSE DaysBeforeYear(year - 1) + (IF IsLeap(year - 1) THEN 366 ELSE 365)

RECURSIVE DaysBeforeMonth(_, _)
\* days from 1 January of `year` to the first of `month`
DaysBeforeMonth(year, month) ==
  IF month = 1 THEN 0
  ELSE DaysBeforeMonth(year, month - 1) + DaysInMonth(year, month - 1)

\* a datetime: the minutes since 2024-01-01 00:00
datetime(year, month, day, hour, minute) ==
  (DaysBeforeYear(year) + DaysBeforeMonth(year, month) + day - 1) * 1440
    + hour * 60 + minute

\* strftime('%Y%m%d') as a number
DateOf(t) ==
  LET n == t \div 1440
      year == CHOOSE y \in Years : DaysBeforeYear(y) <= n /\ n < DaysBeforeYear(y + 1)
      k == n - DaysBeforeYear(year)
      month == CHOOSE m \in 1 .. 12 :
                 /\ DaysBeforeMonth(year, m) <= k
                 /\ k < DaysBeforeMonth(year, m) + DaysInMonth(year, m)
      day == k - DaysBeforeMonth(year, month) + 1
  IN (year * 100 + month) * 100 + day

\* the time the process starts at
StartTime == datetime(2026, 11, 1, 23, 59)

\* the clock one minute later
NextMinute(t) == t + 1

RECURSIVE Digits(_)
\* str(n) for n >= 0
Digits(n) ==
  LET d == <<"0", "1", "2", "3", "4", "5", "6", "7", "8", "9">>[(n % 10) + 1]
  IN IF n < 10 THEN <<d>> ELSE Append(Digits(n \div 10), d)

RECURSIVE zfill(_, _)
\* str.zfill(width)
zfill(s, width) == IF Len(s) >= width THEN s ELSE zfill(<<"0">> \o s, width)

\* dict.update: the keys of u overwrite those of d (u's keys are fields of d)
DictUpdate(d, u) == [k \in DOMAIN d |-> IF k \in DOMAIN u THEN u[k] ELSE d[k]]

\* del d[key]
DictDel(d, key) == [k \in DOMAIN d \ {key} |-> d[k]]

\* an assignment that leaves nothing else in the dict
DictSetAlone(d, key, value) == key :> value

\* d[key] = value
DictSet(d, key, value) ==
  [k \in DOMAIN d \cup {key} |-> IF k = key THEN value ELSE d[k]]

\* the dict with no key: a body in which no field was sent
EmptyDict == [k \in {} |-> None]

-----------------------------------------------------------------------------
(* Strings *)

UpperChars == <<"A", "B", "C", "D", "E", "F", "G", "H", "I", "J", "K", "L", "M",
                "N", "O", "P", "Q", "R", "S", "T", "U", "V", "W", "X", "Y", "Z",
                "Á", "É", "Í", "Ó", "Ú", "Ñ">>
LowerChars == <<"a", "b", "c", "d", "e", "f", "g", "h", "i", "j", "k", "l", "m",
                "n", "o", "p", "q", "r", "s", "t", "u", "v", "w", "x", "y", "z",
                "á", "é", "í", "ó", "ú", "ñ">>

LowerChar(c) ==
  IF \E i \in DOMAIN UpperChars : UpperChars[i] = c
  THEN LowerChars[CHOOSE i \in DOMAIN UpperChars : UpperChars[i] = c]
  ELSE c

UpperChar(c) ==
  IF \E i \in DOMAIN LowerChars : LowerChars[i] = c
  THEN UpperChars[CHOOSE i \in DOMAIN LowerChars : LowerChars[i] = c]
  ELSE c

\* a lower() that leaves the string as it is
lower_unchanged(s) == s

\* str.lower()
lower(s) == [i \in 1 .. Len(s) |-> LowerChar(s[i])]

\* str.upper()
upper(s) == [i \in 1 .. Len(s) |-> UpperChar(s[i])]

\* Python's `needle in haystack` on two strings
In(needle, haystack) ==
  \E i \in 0 .. (Len(haystack) - Len(needle)) :
    \A j \in 1 .. Len(needle) : haystack[i + j] = needle[j]

-----------------------------------------------------------------------------
(* Seeded data *)

SeedCorridors ==
  1 :> [id |-> 1,
        name |-> <<"E", "s", "t", "a", "d", "o", "s", " ", "U", "n", "i", "d", "o", "s", " ", "a", " ", "M", "é", "x", "i", "c", "o">>,
        code |-> <<"U", "S", "-", "M", "X">>,
        origin_country |-> <<"E", "s", "t", "a", "d", "o", "s", " ", "U", "n", "i", "d", "o", "s">>,
        destination_country |-> <<"M", "é", "x", "i", "c", "o">>,
        base_fee_percentage |-> 35,
        is_active |-> TRUE,
        created_at |-> datetime(2024, 1, 1, 10, 0)]
  @@ 2 :> [id |-> 2,
        name |-> <<"E", "s", "t", "a", "d", "o", "s", " ", "U", "n", "i", "d", "o", "s", " ", "a", " ", "C", "o", "l", "o", "m", "b", "i", "a">>,
        code |-> <<"U", "S", "-", "C", "O">>,
        origin_country |-> <<"E", "s", "t", "a", "d", "o", "s", " ", "U", "n", "i", "d", "o", "s">>,
        destination_country |-> <<"C", "o", "l", "o", "m", "b", "i", "a">>,
        base_fee_percentage |-> 40,
        is_active |-> TRUE,
        created_at |-> datetime(2024, 1, 1, 10, 0)]
  @@ 3 :> [id |-> 3,
        name |-> <<"E", "s", "t", "a", "d", "o", "s", " ", "U", "n", "i", "d", "o", "s", " ", "a", " ", "G", "u", "a", "t", "e", "m", "a", "l", "a">>,
        code |-> <<"U", "S", "-", "G", "T">>,
        origin_country |-> <<"E", "s", "t", "a", "d", "o", "s", " ", "U", "n", "i", "d", "o", "s">>,
        destination_country |-> <<"G", "u", "a", "t", "e", "m", "a", "l", "a">>,
        base_fee_percentage |-> 45,
        is_active |-> TRUE,
        created_at |-> datetime(2024, 1, 15, 8, 0)]
  @@ 4 :> [id |-> 4,
        name |-> <<"E", "s", "p", "a", "ñ", "a", " ", "a", " ", "E", "c", "u", "a", "d", "o", "r">>,
        code |-> <<"E", "S", "-", "E", "C">>,
        origin_country |-> <<"E", "s", "p", "a", "ñ", "a">>,
        destination_country |-> <<"E", "c", "u", "a", "d", "o", "r">>,
        base_fee_percentage |-> 38,
        is_active |-> TRUE,
        created_at |-> datetime(2024, 2, 1, 9, 0)]
  @@ 5 :> [id |-> 5,
        name |-> <<"R", "e", "i", "n", "o", " ", "U", "n", "i", "d", "o", " ", "a", " ", "I", "n", "d", "i", "a">>,
        code |-> <<"U", "K", "-", "I", "N">>,
        origin_country |-> <<"R", "e", "i", "n", "o", " ", "U", "n", "i", "d", "o">>,
        destination_country |-> <<"I", "n", "d", "i", "a">>,
        base_fee_percentage |-> 25,
        is_active |-> FALSE,
        created_at |-> datetime(2024, 2, 15, 11, 0)]

SeedRemittances ==
  1 :> [id |-> 1,
        reference_code |-> <<"R", "E", "M", "-", "2", "0", "2", "4", "0", "1", "1", "5", "-", "0", "0", "1">>,
        sender_name |-> <<"C", "a", "r", "l", "o", "s", " ", "G", "a", "r", "c", "í", "a">>,
        recipient_name |-> <<"M", "a", "r", "í", "a", " ", "G", "a", "r", "c", "í", "a", " ", "L", "ó", "p", "e", "z">>,
        corridor_id |-> 1,
        amount |-> 50000,
        currency |-> "USD",
        exchange_rate |-> 1745,
        fee |-> 1750,
        payment_method |-> "bank_transfer",
        status |-> "completed",
        is_express |-> FALSE,
        created_at |-> datetime(2024, 1, 15, 9, 0)]
  @@ 2 :> [id |-> 2,
        reference_code |-> <<"R", "E", "M", "-", "2", "0", "2", "4", "0", "1", "2", "0", "-", "0", "0", "2">>,
        sender_name |-> <<"J", "u", "a", "n", " ", "P", "é", "r", "e", "z">>,
        recipient_name |-> <<"A", "n", "a", " ", "P", "é", "r", "e", "z", " ", "M", "u", "ñ", "o", "z">>,
        corridor_id |-> 2,
        amount |-> 120000,
        currency |-> "USD",
        exchange_rate |-> 418550,
        fee |-> 4800,
        payment_method |-> "debit_card",
        status |-> "completed",
        is_express |-> FALSE,
        created_at |-> datetime(2024, 1, 20, 14, 0)]
  @@ 3 :> [id |-> 3,
        reference_code |-> <<"R", "E", "M", "-", "2", "0", "2", "4", "0", "2", "0", "1", "-", "0", "0", "3">>,
        sender_name |-> <<"M", "i", "g", "u", "e", "l", " ", "T", "o", "r", "r", "e", "s">>,
        recipient_name |-> <<"P", "e", "d", "r", "o", " ", "T", "o", "r", "r", "e", "s", " ", "R", "u", "i", "z">>,
        corridor_id |-> 3,
        amount |-> 30000,
        currency |-> "USD",
        exchange_rate |-> 782,
        fee |-> 1950,
        payment_method |-> "cash",
        status |-> "processing",
        is_express |-> TRUE,
        created_at |-> datetime(2024, 2, 1, 10, 0)]
  @@ 4 :> [id |-> 4,
        reference_code |-> <<"R", "E", "M", "-", "2", "0", "2", "4", "0", "2", "1", "0", "-", "0", "0", "4">>,
        sender_name |-> <<"R", "o", "b", "e", "r", "t", "o", " ", "S", "á", "n", "c", "h", "e", "z">>,
        recipient_name |-> <<"L", "u", "c", "í", "a", " ", "S", "á", "n", "c", "h", "e", "z", " ", "V", "e", "g", "a">>,
        corridor_id |-> 4,
        amount |-> 80000,
        currency |-> "EUR",
        exchange_rate |-> 108,
        fee |-> 3040,
        payment_method |-> "bank_transfer",
        status |-> "pending",
        is_express |-> FALSE,
        created_at |-> datetime(2024, 2, 10, 8, 30)]
  @@ 5 :> [id |-> 5,
        reference_code |-> <<"R", "E", "M", "-", "2", "0", "2", "4", "0", "2", "1", "5", "-", "0", "0", "5">>,
        sender_name |-> <<"L", "a", "u", "r", "a", " ", "M", "a", "r", "t", "í", "n", "e", "z">>,
        recipient_name |-> <<"C", "a", "r", "m", "e", "n", " ", "D", "í", "a", "z", " ", "M", "a", "r", "t", "í", "n", "e", "z">>,
        corridor_id |-> 1,
        amount |-> 200000,
        currency |-> "USD",
        exchange_rate |-> 1752,
        fee |-> 11000,
        payment_method |-> "mobile_wallet",
        status |-> "completed",
        is_express |-> TRUE,
        created_at |-> datetime(2024, 2, 15, 11, 0)]
  @@ 6 :> [id |-> 6,
        reference_code |-> <<"R", "E", "M", "-", "2", "0", "2", "4", "0", "3", "0", "1", "-", "0", "0", "6">>,
        sender_name |-> <<"A", "n", "d", "r", "é", "s", " ", "L", "ó", "p", "e", "z">>,
        recipient_name |-> <<"F", "e", "l", "i", "p", "e", " ", "L", "ó", "p", "e", "z", " ", "H", "e", "r", "r", "e", "r", "a">>,
        corridor_id |-> 2,
        amount |-> 15000,
        currency |-> "USD",
        exchange_rate |-> 419230,
        fee |-> 600,
        payment_method |-> "cash",
        status |-> "failed",
        is_express |-> FALSE,
        created_at |-> datetime(2024, 3, 1, 16, 0)]
  @@ 7 :> [id |-> 7,
        reference_code |-> <<"R", "E", "M", "-", "2", "0", "2", "4", "0", "3", "0", "5", "-", "0", "0", "7">>,
        sender_name |-> <<"D", "i", "a", "n", "a", " ", "R", "a", "m", "í", "r", "e", "z">>,
        recipient_name |-> <<"J", "o", "r", "g", "e", " ", "R", "a", "m", "í", "r", "e", "z", " ", "S", "o", "l", "a", "n", "o">>,
        corridor_id |-> 1,
        amount |-> 75000,
        currency |-> "USD",
        exchange_rate |-> 1748,
        fee |-> 2625,
        payment_method |-> "debit_card",
        status |-> "pending",
        is_express |-> FALSE,
        created_at |-> datetime(2024, 3, 5, 9, 0)]
  @@ 8 :> [id |-> 8,
        reference_code |-> <<"R", "E", "M", "-", "2", "0", "2", "4", "0", "3", "1", "0", "-", "0", "0", "8">>,
        sender_name |-> <<"P", "a", "t", "r", "i", "c", "i", "a", " ", "F", "l", "o", "r", "e", "s">>,
        recipient_name |-> <<"R", "o", "s", "a", " ", "F", "l", "o", "r", "e", "s", " ", "M", "o", "r", "a", "l", "e", "s">>,
        corridor_id |-> 3,
        amount |-> 45000,
        currency |-> "USD",
        exchange_rate |-> 785,
        fee |-> 2025,
        payment_method |-> "bank_transfer",
        status |-> "cancelled",
        is_express |-> FALSE,
        created_at |-> datetime(2024, 3, 10, 10, 0)]

-----------------------------------------------------------------------------
(* Requests and responses *)

\* HTTPException(status_code, detail): the handler stops and nothing more is written
Answer(op, id, body, status_code, detail) ==
  /\ request' = [op |-> op, id |-> id, body |-> body]
  /\ response' = [status_code |-> status_code, detail |-> detail]
  /\ handled' = handled + 1
  /\ UNCHANGED <<week2, query, loop>>

IsError(r) == r.status_code >= HTTP_400_BAD_REQUEST

-----------------------------------------------------------------------------
(* wook-3/database.py *)

\* get_next_corridor_id_stuck: the counter is read and not advanced
get_next_corridor_id_stuck ==
  [current |-> next_corridor_id, next_corridor_id |-> next_corridor_id]

\* the id returned and the counter left behind
get_next_corridor_id ==
  [current |-> next_corridor_id, next_corridor_id |-> next_corridor_id + 1]

\* get_next_remittance_id_stuck: the counter is read and not advanced
get_next_remittance_id_stuck ==
  [current |-> next_remittance_id, next_remittance_id |-> next_remittance_id]

\* the id returned and the counter left behind
get_next_remittance_id ==
  [current |-> next_remittance_id, next_remittance_id |-> next_remittance_id + 1]

-----------------------------------------------------------------------------
(* wook-3/routers/corridors.py *)

\* corridor codes, names and countries the clients send
Code_ES_EC == <<"E", "S", "-", "E", "C">>
Code_CA_MX == <<"C", "A", "-", "M", "X">>

CorridorCreateBody(code, is_active) ==
  [name |-> <<"C", "a", "n", "a", "d", "á", " ", "a", " ", "M", "é", "x", "i", "c", "o">>,
   code |-> code,
   origin_country |-> <<"C", "a", "n", "a", "d", "á">>,
   destination_country |-> <<"M", "é", "x", "i", "c", "o">>,
   base_fee_percentage |-> 50,
   is_active |-> is_active]

\* bodies of POST /corridors and PUT /corridors/{id} (schemas.CorridorCreate)
CorridorCreateBodies ==
  { CorridorCreateBody(Code_ES_EC, TRUE),
    CorridorCreateBody(Code_CA_MX, TRUE),
    CorridorCreateBody(Code_CA_MX, FALSE) }

\* bodies of PATCH /corridors/{id} (schemas.CorridorUpdate, exclude_unset).
\* Every field is `T | None`; a null is drawn for base_fee_percentage.
CorridorUpdateBodies ==
  { EmptyDict,
    [code |-> Code_ES_EC],
    [code |-> Code_CA_MX],
    [is_active |-> FALSE],
    [is_active |-> TRUE],
    [base_fee_percentage |-> 50],
    [base_fee_percentage |-> None],
    [code |-> Code_CA_MX, base_fee_percentage |-> None] }

\* 4 holds remittance 4, 5 is inactive and holds none, 6 is the next id
CorridorIdInputs == {4, 5, 6}

\* response_model=CorridorResponse: base_fee_percentage must be a float
CorridorResponseValid(c) == c.base_fee_percentage # None

\* the duplicate-code check of create_corridor with no check at all
CodeTakenNever(code, except) == FALSE

\* some corridor other than `except` holds the code
CodeTaken(code, except) ==
  \E cid \in DOMAIN corridors_db :
    cid # except /\ corridors_db[cid]["code"] = code

create_corridor(corridor) ==
  /\ handled < MaxRequests
  /\ IF CodeTaken(corridor.code, None)
     THEN /\ Answer("create_corridor", None, corridor,
                    HTTP_400_BAD_REQUEST, "duplicate_code")
          /\ UNCHANGED <<store, now>>
     ELSE LET g == get_next_corridor_id
              new_id == g.current
              corridor_dict ==
                [id |-> new_id,
                 name |-> corridor.name,
                 code |-> corridor.code,
                 origin_country |-> corridor.origin_country,
                 destination_country |-> corridor.destination_country,
                 base_fee_percentage |-> corridor.base_fee_percentage,
                 is_active |-> corridor.is_active,
                 created_at |-> now]
          IN /\ next_corridor_id' = g.next_corridor_id
             /\ corridors_db' = DictSet(corridors_db, new_id, corridor_dict)
             /\ Answer("create_corridor", None, corridor, HTTP_201_CREATED, "ok")
             /\ UNCHANGED <<remittances_db, next_remittance_id, now>>

replace_corridor(corridor_id, corridor) ==
  /\ handled < MaxRequests
  /\ IF corridor_id \notin DOMAIN corridors_db
     THEN /\ Answer("replace_corridor", corridor_id, corridor,
                    HTTP_404_NOT_FOUND, "corridor_not_found")
          /\ UNCHANGED <<store, now>>
     ELSE IF CodeTaken(corridor.code, corridor_id)
     THEN /\ Answer("replace_corridor", corridor_id, corridor,
                    HTTP_400_BAD_REQUEST, "duplicate_code")
          /\ UNCHANGED <<store, now>>
     ELSE LET corridor_dict ==
                [id |-> corridor_id,
                 name |-> corridor.name,
                 code |-> corridor.code,
                 origin_country |-> corridor.origin_country,
                 destination_country |-> corridor.destination_country,
                 base_fee_percentage |-> corridor.base_fee_percentage,
                 is_active |-> corridor.is_active,
                 created_at |-> corridors_db[corridor_id].created_at]
          IN /\ corridors_db' = DictSet(corridors_db, corridor_id, corridor_dict)
             /\ Answer("replace_corridor", corridor_id, corridor, HTTP_200_OK, "ok")
             /\ UNCHANGED <<next_corridor_id, remittances_db, next_remittance_id, now>>

update_corridor(corridor_id, update_data) ==
  /\ handled < MaxRequests
  /\ IF corridor_id \notin DOMAIN corridors_db
     THEN /\ Answer("update_corridor", corridor_id, update_data,
                    HTTP_404_NOT_FOUND, "corridor_not_found")
          /\ UNCHANGED <<store, now>>
     ELSE IF "code" \in DOMAIN update_data /\ CodeTaken(update_data["code"], corridor_id)
     THEN /\ Answer("update_corridor", corridor_id, update_data,
                    HTTP_400_BAD_REQUEST, "duplicate_code")
          /\ UNCHANGED <<store, now>>
     ELSE LET updated == DictUpdate(corridors_db[corridor_id], update_data)
          IN /\ corridors_db' = DictSet(corridors_db, corridor_id, updated)
             \* the stored dict is returned through response_model
             /\ IF CorridorResponseValid(updated)
                THEN Answer("update_corridor", corridor_id, update_data,
                            HTTP_200_OK, "ok")
                ELSE Answer("update_corridor", corridor_id, update_data,
                            HTTP_500_INTERNAL_SERVER_ERROR, "response_validation")
             /\ UNCHANGED <<next_corridor_id, remittances_db, next_remittance_id, now>>

\* the guard of delete_corridor dropped
has_remittances_unchecked(corridor_id) == FALSE

\* the guard of delete_corridor asking whether any remittance is stored
has_remittances_any(corridor_id) == DOMAIN remittances_db # {}

has_remittances(corridor_id) ==
  \E rid \in DOMAIN remittances_db : remittances_db[rid].corridor_id = corridor_id

delete_corridor(corridor_id) ==
  /\ handled < MaxRequests
  /\ IF corridor_id \notin DOMAIN corridors_db
     THEN /\ Answer("delete_corridor", corridor_id, EmptyDict,
                    HTTP_404_NOT_FOUND, "corridor_not_found")
          /\ UNCHANGED <<store, now>>
     ELSE IF has_remittances(corridor_id)
     THEN /\ Answer("delete_corridor", corridor_id, EmptyDict,
                    HTTP_400_BAD_REQUEST, "corridor_has_remittances")
          /\ UNCHANGED <<store, now>>
     ELSE /\ corridors_db' = DictDel(corridors_db, corridor_id)
          /\ Answer("delete_corridor", corridor_id, EmptyDict,
                    HTTP_204_NO_CONTENT, "ok")
          /\ UNCHANGED <<next_corridor_id, remittances_db, next_remittance_id, now>>

-----------------------------------------------------------------------------
(* wook-3/routers/remittances.py *)

\* round(n / d) of Python 3: to the nearest, and a tie to the even neighbour
RoundHalfEven(n, d) ==
  LET q == n \div d
      r == n % d
  IN IF 2 * r < d THEN q
     ELSE IF 2 * r > d THEN q + 1
     ELSE IF q % 2 = 0 THEN q ELSE q + 1

\* _calculate_fee raises (KeyError, or TypeError on None * float)
_calculate_fee_raises(amount, corridor_id, is_express) ==
  \/ corridor_id \notin DOMAIN corridors_db
  \/ corridors_db[corridor_id].base_fee_percentage = None
  \/ amount = None

\* _calculate_fee without the express surcharge
_calculate_fee_no_surcharge(amount, corridor_id, is_express) ==
  RoundHalfEven(amount * corridors_db[corridor_id].base_fee_percentage, 1000)

\* cents of round(amount * fee_percentage / 100, 2), fee_percentage in tenths
_calculate_fee(amount, corridor_id, is_express) ==
  LET base == corridors_db[corridor_id].base_fee_percentage
      fee_percentage == IF is_express THEN base + 20 ELSE base
  IN RoundHalfEven(amount * fee_percentage, 1000)

\* _generate_reference_code stamped with the id only
_generate_reference_code_fixed(remittance_id) ==
  <<"R", "E", "M", "-">> \o Digits(DateOf(now)) \o <<"-", "0", "0", "0">>

\* REM-YYYYMMDD-XXX
_generate_reference_code(remittance_id) ==
  <<"R", "E", "M", "-">> \o Digits(DateOf(now)) \o <<"-">>
    \o zfill(Digits(remittance_id), 3)

\* dict.get(key): <<value>> when the key is there, <<>> for None
DictGet(d, key) == IF key \in DOMAIN d THEN <<d[key]>> ELSE <<>>

\* the remittance with the corridor it names looked up
_enrich_with_corridor(remittance) ==
  [remittance |-> remittance,
   corridor |-> DictGet(corridors_db, remittance.corridor_id)]

\* the stored dict after an enrichment that writes "corridor" into it
copy_aliased(remittance) ==
  ("corridor" :> DictGet(corridors_db, remittance.corridor_id)) @@ remittance

\* enriched = remittance.copy(): what _enrich_with_corridor leaves of the
\* stored dict it is given, the "corridor" key going into the copy
copy(remittance) == remittance

\* remittances_db after _enrich_with_corridor has run on the records rs of it
enriched_db(rs) ==
  [k \in DOMAIN remittances_db |->
     IF \E i \in DOMAIN rs : rs[i].id = k
     THEN copy(remittances_db[k]) ELSE remittances_db[k]]

\* the activity check left out
corridor_inactive_never(corridor_id) == FALSE

\* `not corridor["is_active"]` of the corridor a remittance is to reference
corridor_inactive(corridor_id) == ~ corridors_db[corridor_id].is_active

RemittanceCreateBody(corridor_id, is_express) ==
  [sender_name |-> <<"A", "n", "a", " ", "R", "u", "i", "z">>,
   recipient_name |-> <<"L", "u", "i", "s", " ", "R", "u", "i", "z">>,
   amount |-> 12345,
   currency |-> "GBP",
   exchange_rate |-> 125,
   payment_method |-> "cash",
   is_express |-> is_express,
   corridor_id |-> corridor_id]

\* bodies of POST /remittances and PUT /remittances/{id} (schemas.RemittanceCreate)
RemittanceCreateBodies ==
  { RemittanceCreateBody(4, FALSE),
    RemittanceCreateBody(4, TRUE),
    RemittanceCreateBody(5, FALSE),
    RemittanceCreateBody(6, TRUE) }

\* bodies of PATCH /remittances/{id} (schemas.RemittanceUpdate, exclude_unset).
\* Every field is `T | None`: a null passes validation and stays in the dump.
\* Nulls are drawn for amount and corridor_id.
RemittanceUpdateBodies ==
  { EmptyDict,
    [amount |-> 20000],
    [amount |-> None],
    [corridor_id |-> 3],
    [corridor_id |-> 4],
    [corridor_id |-> 5],
    [corridor_id |-> 6],
    [corridor_id |-> None],
    [is_express |-> TRUE],
    [is_express |-> FALSE],
    [status |-> "completed"],
    [status |-> "cancelled"],
    [sender_name |-> <<"E", "v", "a">>],
    [sender_name |-> <<"E", "v", "a">>, amount |-> None] }

\* 3 is processing, 4 is pending, 9 is the next id
RemittanceIdInputs == {3, 4, 9}

create_remittance(remittance) ==
  /\ handled < MaxRequests
  /\ IF remittance.corridor_id \notin DOMAIN corridors_db
     THEN /\ Answer("create_remittance", None, remittance,
                    HTTP_400_BAD_REQUEST, "corridor_not_found")
          /\ UNCHANGED <<store, now>>
     ELSE IF corridor_inactive(remittance.corridor_id)
     THEN /\ Answer("create_remittance", None, remittance,
                    HTTP_400_BAD_REQUEST, "corridor_inactive")
          /\ UNCHANGED <<store, now>>
     ELSE LET g == get_next_remittance_id
              new_id == g.current
          IN /\ next_remittance_id' = g.next_remittance_id
             /\ IF _calculate_fee_raises(remittance.amount, remittance.corridor_id,
                                         remittance.is_express)
                THEN /\ Answer("create_remittance", None, remittance,
                               HTTP_500_INTERNAL_SERVER_ERROR, "TypeError")
                     /\ UNCHANGED remittances_db
                ELSE LET remittance_dict ==
                           [id |-> new_id,
                            reference_code |-> _generate_reference_code(new_id),
                            sender_name |-> remittance.sender_name,
                            recipient_name |-> remittance.recipient_name,
                            corridor_id |-> remittance.corridor_id,
                            amount |-> remittance.amount,
                            currency |-> remittance.currency,
                            exchange_rate |-> remittance.exchange_rate,
                            fee |-> _calculate_fee(remittance.amount,
                                                   remittance.corridor_id,
                                                   remittance.is_express),
                            payment_method |-> remittance.payment_method,
                            status |-> "pending",
                            is_express |-> remittance.is_express,
                            created_at |-> now]
                     IN /\ remittances_db' =
                             DictSet(remittances_db, new_id, remittance_dict)
                        /\ Answer("create_remittance", None, remittance,
                                  HTTP_201_CREATED, "ok")
             /\ UNCHANGED <<corridors_db, next_corridor_id, now>>

\* the replacement stamped anew instead of keeping the record's own stamps
replaced_remittance_restamped(remittance_id, remittance) ==
  [id |-> remittance_id,
   reference_code |-> _generate_reference_code(remittance_id),
   sender_name |-> remittance.sender_name,
   recipient_name |-> remittance.recipient_name,
   corridor_id |-> remittance.corridor_id,
   amount |-> remittance.amount,
   currency |-> remittance.currency,
   exchange_rate |-> remittance.exchange_rate,
   fee |-> _calculate_fee(remittance.amount, remittance.corridor_id,
                          remittance.is_express),
   payment_method |-> remittance.payment_method,
   status |-> remittances_db[remittance_id].status,
   is_express |-> remittance.is_express,
   created_at |-> now]

\* remittance_dict of replace_remittance: the body, with the id, the reference
\* code, the status and the creation time of the record it replaces
replaced_remittance(remittance_id, remittance) ==
  LET existing == remittances_db[remittance_id]
  IN [id |-> remittance_id,
      reference_code |-> existing.reference_code,
      sender_name |-> remittance.sender_name,
      recipient_name |-> remittance.recipient_name,
      corridor_id |-> remittance.corridor_id,
      amount |-> remittance.amount,
      currency |-> remittance.currency,
      exchange_rate |-> remittance.exchange_rate,
      fee |-> _calculate_fee(remittance.amount, remittance.corridor_id,
                             remittance.is_express),
      payment_method |-> remittance.payment_method,
      status |-> existing.status,
      is_express |-> remittance.is_express,
      created_at |-> existing.created_at]

replace_remittance(remittance_id, remittance) ==
  /\ handled < MaxRequests
  /\ IF remittance_id \notin DOMAIN remittances_db
     THEN /\ Answer("replace_remittance", remittance_id, remittance,
                    HTTP_404_NOT_FOUND, "remittance_not_found")
          /\ UNCHANGED <<store, now>>
     ELSE IF remittance.corridor_id \notin DOMAIN corridors_db
     THEN /\ Answer("replace_remittance", remittance_id, remittance,
                    HTTP_400_BAD_REQUEST, "corridor_not_found")
          /\ UNCHANGED <<store, now>>
     ELSE IF corridor_inactive(remittance.corridor_id)
     THEN /\ Answer("replace_remittance", remittance_id, remittance,
                    HTTP_400_BAD_REQUEST, "corridor_inactive")
          /\ UNCHANGED <<store, now>>
     ELSE IF _calculate_fee_raises(remittance.amount, remittance.corridor_id,
                                   remittance.is_express)
     THEN /\ Answer("replace_remittance", remittance_id, remittance,
                    HTTP_500_INTERNAL_SERVER_ERROR, "TypeError")
          /\ UNCHANGED <<store, now>>
     ELSE LET remittance_dict == replaced_remittance(remittance_id, remittance)
          IN /\ remittances_db' = DictSet(remittances_db, remittance_id, remittance_dict)
             /\ Answer("replace_remittance", remittance_id, remittance,
                       HTTP_200_OK, "ok")
             /\ UNCHANGED <<corridors_db, next_corridor_id, next_remittance_id, now>>

\* the recomputation triggered by a new amount only
FeeFieldsAmountOnly == {"amount"}

\* a recomputation triggered by a new status as well
FeeFieldsAndStatus == {"amount", "corridor_id", "is_express", "status"}

\* the fields whose change makes update_remittance recompute the fee
FeeFields == {"amount", "corridor_id", "is_express"}

\* a check of the corridor the remittance references when none is given
checked_corridors_always(remittance_id, update_data) ==
  IF "corridor_id" \in DOMAIN update_data
  THEN {update_data["corridor_id"]}
  ELSE {remittances_db[remittance_id].corridor_id}

\* a check of the given corridor only when it is not the referenced one
checked_corridors_if_changed(remittance_id, update_data) ==
  IF "corridor_id" \in DOMAIN update_data
  THEN {update_data["corridor_id"]} \ {remittances_db[remittance_id].corridor_id}
  ELSE {}

\* `if "corridor_id" in update_data`: the corridors update_remittance looks
\* up, the given one or none
checked_corridors(remittance_id, update_data) ==
  IF "corridor_id" \in DOMAIN update_data
  THEN {update_data["corridor_id"]}
  ELSE {}

update_remittance(remittance_id, update_data) ==
  /\ handled < MaxRequests
  /\ IF remittance_id \notin DOMAIN remittances_db
     THEN /\ Answer("update_remittance", remittance_id, update_data,
                    HTTP_404_NOT_FOUND, "remittance_not_found")
          /\ UNCHANGED <<store, now>>
     ELSE IF \E corridor_id \in checked_corridors(remittance_id, update_data) :
               corridor_id \notin DOMAIN corridors_db
     THEN /\ Answer("update_remittance", remittance_id, update_data,
                    HTTP_400_BAD_REQUEST, "corridor_not_found")
          /\ UNCHANGED <<store, now>>
     ELSE IF \E corridor_id \in checked_corridors(remittance_id, update_data) :
               corridor_inactive(corridor_id)
     THEN /\ Answer("update_remittance", remittance_id, update_data,
                    HTTP_400_BAD_REQUEST, "corridor_inactive")
          /\ UNCHANGED <<store, now>>
     ELSE LET \* remittances_db[remittance_id].update(update_data)
              current == DictUpdate(remittances_db[remittance_id], update_data)
          IN /\ IF DOMAIN update_data \cap FeeFields = {}
                THEN /\ remittances_db' = DictSet(remittances_db, remittance_id, current)
                     /\ Answer("update_remittance", remittance_id, update_data,
                               HTTP_200_OK, "ok")
                ELSE IF _calculate_fee_raises(current.amount, current.corridor_id,
                                              current.is_express)
                THEN \* the fields are written, the fee is not
                     /\ remittances_db' = DictSet(remittances_db, remittance_id, current)
                     /\ Answer("update_remittance", remittance_id, update_data,
                               HTTP_500_INTERNAL_SERVER_ERROR, "TypeError")
                ELSE /\ remittances_db' =
                          DictSet(remittances_db, remittance_id,
                                  [current EXCEPT !.fee =
                                     _calculate_fee(current.amount, current.corridor_id,
                                                    current.is_express)])
                     /\ Answer("update_remittance", remittance_id, update_data,
                               HTTP_200_OK, "ok")
             /\ UNCHANGED <<corridors_db, next_corridor_id, next_remittance_id, now>>

\* delete_remittance deleting completed remittances too
DeletableStatusesAndCompleted == {"pending", "cancelled", "completed"}

\* the statuses in which delete_remittance deletes
DeletableStatuses == {"pending", "cancelled"}

delete_remittance(remittance_id) ==
  /\ handled < MaxRequests
  /\ IF remittance_id \notin DOMAIN remittances_db
     THEN /\ Answer("delete_remittance", remittance_id, EmptyDict,
                    HTTP_404_NOT_FOUND, "remittance_not_found")
          /\ UNCHANGED <<store, now>>
     ELSE IF remittances_db[remittance_id].status \notin DeletableStatuses
     THEN /\ Answer("delete_remittance", remittance_id, EmptyDict,
                    HTTP_400_BAD_REQUEST, "status_not_deletable")
          /\ UNCHANGED <<store, now>>
     ELSE /\ remittances_db' = DictDel(remittances_db, remittance_id)
          /\ Answer("delete_remittance", remittance_id, EmptyDict,
                    HTTP_204_NO_CONTENT, "ok")
          /\ UNCHANGED <<corridors_db, next_corridor_id, next_remittance_id, now>>

RECURSIVE values(_)
\* list(d.values()): the records in insertion order, which is ascending id
values(d) ==
  IF DOMAIN d = {} THEN <<>>
  ELSE LET k == CHOOSE k \in DOMAIN d : \A other \in DOMAIN d : k <= other
       IN <<d[k]>> \o values(DictDel(d, k))

RECURSIVE sum(_)
\* sum(numbers)
sum(numbers) ==
  IF numbers = <<>> THEN 0 ELSE Head(numbers) + sum(Tail(numbers))

\* status_count: a status some record has -> how many records have it
status_count(rs) ==
  [st \in {rs[i].status : i \in DOMAIN rs} |->
     Cardinality({i \in DOMAIN rs : rs[i].status = st})]

\* the entry of stats_by_corridor for one corridor
\* (round(x, 2) of an amount in cents is the amount)
corridor_stats(corridor) ==
  LET cid == corridor.id
      Keep(r) == r.corridor_id = cid
      corridor_remittances == SelectSeq(values(remittances_db), Keep)
      amounts == [i \in DOMAIN corridor_remittances |-> corridor_remittances[i].amount]
      fees == [i \in DOMAIN corridor_remittances |-> corridor_remittances[i].fee]
  IN [corridor_name |-> corridor.name,
      corridor_id |-> cid,
      is_active |-> corridor.is_active,
      total_remittances |-> Len(corridor_remittances),
      total_amount |-> IF Len(amounts) > 0 THEN sum(amounts) ELSE 0,
      average_amount |-> IF Len(amounts) > 0
                         THEN RoundHalfEven(sum(amounts), Len(amounts)) ELSE 0,
      total_fees |-> IF Len(fees) > 0 THEN sum(fees) ELSE 0,
      by_status |-> status_count(corridor_remittances)]

\* stats_by_corridor: keyed by corridor["code"], a later corridor with the
\* same code overwriting an earlier one
stats_by_corridor ==
  LET codes == {corridors_db[c].code : c \in DOMAIN corridors_db}
      Last(code) == CHOOSE c \in DOMAIN corridors_db :
                      /\ corridors_db[c].code = code
                      /\ \A d \in DOMAIN corridors_db :
                           corridors_db[d].code = code => d <= c
  IN [code \in codes |-> corridor_stats(corridors_db[Last(code)])]

\* the "summary" of the statistics
stats_summary ==
  LET all_remittances == values(remittances_db)
      all_amounts == [i \in DOMAIN all_remittances |-> all_remittances[i].amount]
      all_fees == [i \in DOMAIN all_remittances |-> all_remittances[i].fee]
  IN [total_remittances |-> Len(all_remittances),
      total_amount |-> IF Len(all_amounts) > 0 THEN sum(all_amounts) ELSE 0,
      average_amount |-> IF Len(all_amounts) > 0
                         THEN RoundHalfEven(sum(all_amounts), Len(all_amounts))
                         ELSE 0,
      total_fees_collected |-> IF Len(all_fees) > 0 THEN sum(all_fees) ELSE 0,
      active_corridors |-> Cardinality({c \in DOMAIN corridors_db :
                                          corridors_db[c].is_active})]

\* GET /remittances/stats. sum() over amounts raises TypeError when a stored
\* amount is None
get_remittance_stats ==
  /\ handled < MaxRequests
  /\ request' = [op |-> "get_remittance_stats", id |-> None, body |-> EmptyDict]
  /\ handled' = handled + 1
  /\ IF \E k \in DOMAIN remittances_db : remittances_db[k].amount = None
     THEN /\ response' = [status_code |-> HTTP_500_INTERNAL_SERVER_ERROR,
                          detail |-> "TypeError"]
          /\ UNCHANGED query
     ELSE /\ result' = [summary |-> stats_summary,
                        by_corridor |-> stats_by_corridor]
          /\ response' = [status_code |-> HTTP_200_OK, detail |-> "ok"]
          /\ UNCHANGED <<items, filters>>
  /\ UNCHANGED <<store, now, week2, loop>>

-----------------------------------------------------------------------------
(* week-2/database.py and week-2/main.py *)

HTTP_409_CONFLICT == 409

\* get_next_id handing out the number of stored records plus one
get_next_id_by_count ==
  [current |-> Cardinality(DOMAIN w2_remittances_db) + 1,
   _id_counter |-> _id_counter]

\* the id returned and the counter left behind
get_next_id ==
  [current |-> _id_counter + 1, _id_counter |-> _id_counter + 1]

\* the id of the first remittance holding the tracking code, or None
find_by_tracking_code(tracking_code) ==
  LET found == {i \in DOMAIN w2_remittances_db :
                  upper(w2_remittances_db[i].tracking_code) = upper(tracking_code)}
  IN IF found = {} THEN None ELSE CHOOSE i \in found : \A j \in found : i <= j

W2CreateBody(tracking_code) ==
  [sender_name |-> <<"A", "n", "a", " ", "R", "u", "i", "z">>,
   amount |-> 12345,
   tracking_code |-> tracking_code,
   status |-> "pendiente",
   is_urgent |-> FALSE]

\* bodies of POST /remittances (week-2 schemas.RemittanceCreate, validated);
\* status is a field of the body, so a remittance can be created cancelled
W2CreateBodies ==
  { W2CreateBody(<<"R", "E", "M", "-", "1", "2", "3", "4", "5">>),
    W2CreateBody(<<"R", "E", "M", "-", "5", "4", "3", "2", "1">>),
    [W2CreateBody(<<"R", "E", "M", "-", "1", "2", "3", "4", "5">>)
       EXCEPT !.status = "cancelada"] }

\* bodies of PATCH /remittances/{id} (week-2 schemas.RemittanceUpdate,
\* exclude_unset)
W2UpdateBodies ==
  { EmptyDict,
    [status |-> "completada"],
    [status |-> "cancelada"],
    [tracking_code |-> <<"R", "E", "M", "-", "5", "4", "3", "2", "1">>] }

\* the first two ids the week-2 store hands out
W2IdInputs == {1, 2}

w2_create_remittance(remittance) ==
  /\ handled < MaxRequests
  /\ UNCHANGED <<store, now, query, loop>>
  /\ request' = [op |-> "w2_create_remittance", id |-> None, body |-> remittance]
  /\ handled' = handled + 1
  /\ IF find_by_tracking_code(remittance.tracking_code) # None
     THEN /\ response' = [status_code |-> HTTP_409_CONFLICT,
                          detail |-> "tracking_code_exists"]
          /\ UNCHANGED week2
     ELSE LET g == get_next_id
              remittance_id == g.current
              new_remittance ==
                [id |-> remittance_id,
                 sender_name |-> remittance.sender_name,
                 amount |-> remittance.amount,
                 tracking_code |-> remittance.tracking_code,
                 status |-> remittance.status,
                 is_urgent |-> remittance.is_urgent,
                 created_at |-> now,
                 updated_at |-> None]
          IN /\ _id_counter' = g._id_counter
             /\ w2_remittances_db' =
                  DictSet(w2_remittances_db, remittance_id, new_remittance)
             /\ response' = [status_code |-> HTTP_201_CREATED, detail |-> "ok"]

w2_delete_remittance(remittance_id) ==
  /\ handled < MaxRequests
  /\ UNCHANGED <<store, now, query, loop>>
  /\ request' = [op |-> "w2_delete_remittance", id |-> remittance_id,
                 body |-> EmptyDict]
  /\ handled' = handled + 1
  /\ IF remittance_id \notin DOMAIN w2_remittances_db
     THEN /\ response' = [status_code |-> HTTP_404_NOT_FOUND,
                          detail |-> "remittance_not_found"]
          /\ UNCHANGED week2
     ELSE /\ w2_remittances_db' = DictDel(w2_remittances_db, remittance_id)
          /\ response' = [status_code |-> HTTP_204_NO_CONTENT, detail |-> "ok"]
          /\ UNCHANGED _id_counter

w2_update_remittance(remittance_id, update_data) ==
  /\ handled < MaxRequests
  /\ UNCHANGED <<store, now, query, loop>>
  /\ request' = [op |-> "w2_update_remittance", id |-> remittance_id,
                 body |-> update_data]
  /\ handled' = handled + 1
  /\ IF remittance_id \notin DOMAIN w2_remittances_db
     THEN /\ response' = [status_code |-> HTTP_404_NOT_FOUND,
                          detail |-> "remittance_not_found"]
          /\ UNCHANGED week2
     ELSE IF DOMAIN update_data = {}
     THEN /\ response' = [status_code |-> HTTP_400_BAD_REQUEST,
                          detail |-> "no_fields"]
          /\ UNCHANGED week2
     ELSE IF /\ "tracking_code" \in DOMAIN update_data
             /\ find_by_tracking_code(update_data.tracking_code)
                  \notin {None, remittance_id}
     THEN /\ response' = [status_code |-> HTTP_409_CONFLICT,
                          detail |-> "tracking_code_exists"]
          /\ UNCHANGED week2
     ELSE LET stored == DictUpdate(w2_remittances_db[remittance_id], update_data)
          IN /\ w2_remittances_db' =
                  DictSet(w2_remittances_db, remittance_id,
                          [stored EXCEPT !.updated_at = now])
             /\ response' = [status_code |-> HTTP_200_OK, detail |-> "ok"]
             /\ UNCHANGED _id_counter

\* `stored["status"] == "cancelada"` refuses the completion
w2_may_complete(stored) == stored.status # "cancelada"

\* POST /remittances/{remittance_id}/complete
w2_complete_remittance(remittance_id) ==
  /\ handled < MaxRequests
  /\ UNCHANGED <<store, now, query, loop>>
  /\ request' = [op |-> "w2_complete_remittance", id |-> remittance_id,
                 body |-> EmptyDict]
  /\ handled' = handled + 1
  /\ IF remittance_id \notin DOMAIN w2_remittances_db
     THEN /\ response' = [status_code |-> HTTP_404_NOT_FOUND,
                          detail |-> "remittance_not_found"]
          /\ UNCHANGED week2
     ELSE IF ~ w2_may_complete(w2_remittances_db[remittance_id])
     THEN /\ response' = [status_code |-> HTTP_400_BAD_REQUEST,
                          detail |-> "cannot_complete_cancelled"]
          /\ UNCHANGED week2
     ELSE /\ w2_remittances_db' =
               DictSet(w2_remittances_db, remittance_id,
                       [w2_remittances_db[remittance_id]
                          EXCEPT !.status = "completada", !.updated_at = now])
          /\ response' = [status_code |-> HTTP_200_OK, detail |-> "ok"]
          /\ UNCHANGED _id_counter

-----------------------------------------------------------------------------
(* The environment *)

\* datetime.now() moves on between two requests
Tick ==
  /\ now - StartTime < MaxTicks
  /\ now' = NextMinute(now)
  /\ UNCHANGED <<store, request, response, handled, week2, query, loop>>

-----------------------------------------------------------------------------
(* The service: the seeded stores, and one request at a time *)

NoRequest == [op |-> "none", id |-> None, body |-> EmptyDict]
NoResponse == [status_code |-> HTTP_200_OK, detail |-> "none"]

Init ==
  /\ corridors_db = SeedCorridors
  /\ next_corridor_id = 6
  /\ remittances_db = SeedRemittances
  /\ next_remittance_id = 9
  /\ now = StartTime
  /\ request = NoRequest
  /\ response = NoResponse
  /\ handled = 0
  /\ w2_remittances_db = EmptyDict
  /\ _id_counter = 0
  /\ items = <<>>
  /\ filters = EmptyDict
  /\ result = <<>>
  /\ tasks = <<>>
  /\ running = None

Next ==
  \/ \E remittance \in RemittanceCreateBodies : create_remittance(remittance)
  \/ \E remittance_id \in RemittanceIdInputs, remittance \in RemittanceCreateBodies :
       replace_remittance(remittance_id, remittance)
  \/ \E remittance_id \in RemittanceIdInputs, remittance \in RemittanceUpdateBodies :
       update_remittance(remittance_id, remittance)
  \/ \E remittance_id \in RemittanceIdInputs : delete_remittance(remittance_id)
  \/ get_remittance_stats
  \/ \E corridor \in CorridorCreateBodies : create_corridor(corridor)
  \/ \E corridor_id \in CorridorIdInputs, corridor \in CorridorCreateBodies :
       replace_corridor(corridor_id, corridor)
  \/ \E corridor_id \in CorridorIdInputs, corridor \in CorridorUpdateBodies :
       update_corridor(corridor_id, corridor)
  \/ \E corridor_id \in CorridorIdInputs : delete_corridor(corridor_id)
  \/ \E remittance \in W2CreateBodies : w2_create_remittance(remittance)
  \/ \E remittance_id \in W2IdInputs : w2_delete_remittance(remittance_id)
  \/ \E remittance_id \in W2IdInputs, remittance \in W2UpdateBodies :
       w2_update_remittance(remittance_id, remittance)
  \/ \E remittance_id \in W2IdInputs : w2_complete_remittance(remittance_id)
  \/ Tick

Spec == Init /\ [][Next]_vars

-----------------------------------------------------------------------------
(* wook-3/routers/remittances.py: the filter engine *)

\* `filters.x is not None`
Given(f, name) == name \in DOMAIN f

\* step 1 of _apply_filters
FilterSearch(rs, f) ==
  IF Given(f, "search") /\ Len(f["search"]) > 0
  THEN LET search_lower == lower(f["search"])
           Keep(r) == \/ In(search_lower, lower(r.sender_name))
                      \/ In(search_lower, lower(r.recipient_name))
                      \/ In(search_lower, lower(r.reference_code))
       IN SelectSeq(rs, Keep)
  ELSE rs

\* step 2
FilterCorridor(rs, f) ==
  IF Given(f, "corridor_id")
  THEN LET Keep(r) == r.corridor_id = f["corridor_id"] IN SelectSeq(rs, Keep)
  ELSE rs

\* step 3
FilterMinAmount(rs, f) ==
  IF Given(f, "min_amount")
  THEN LET Keep(r) == r.amount >= f["min_amount"] IN SelectSeq(rs, Keep)
  ELSE rs

\* step 4
FilterMaxAmount(rs, f) ==
  IF Given(f, "max_amount")
  THEN LET Keep(r) == r.amount <= f["max_amount"] IN SelectSeq(rs, Keep)
  ELSE rs

\* step 5 reading the records the query started from instead of the
\* records the earlier steps kept
FilterStatusOfAll(rs, f) ==
  IF Given(f, "status")
  THEN LET Keep(r) == r.status = f["status"] IN SelectSeq(items, Keep)
  ELSE rs

\* step 5
FilterStatus(rs, f) ==
  IF Given(f, "status")
  THEN LET Keep(r) == r.status = f["status"] IN SelectSeq(rs, Keep)
  ELSE rs

\* step 6
FilterCurrency(rs, f) ==
  IF Given(f, "currency")
  THEN LET Keep(r) == r.currency = f["currency"] IN SelectSeq(rs, Keep)
  ELSE rs

\* step 7
FilterPaymentMethod(rs, f) ==
  IF Given(f, "payment_method")
  THEN LET Keep(r) == r.payment_method = f["payment_method"] IN SelectSeq(rs, Keep)
  ELSE rs

\* step 8 written `if filters.is_express:`
FilterExpressTruthy(rs, f) ==
  IF Given(f, "is_express") /\ f["is_express"]
  THEN LET Keep(r) == r.is_express = f["is_express"] IN SelectSeq(rs, Keep)
  ELSE rs

\* step 8
FilterExpress(rs, f) ==
  IF Given(f, "is_express")
  THEN LET Keep(r) == r.is_express = f["is_express"] IN SelectSeq(rs, Keep)
  ELSE rs

_apply_filters(rs, f) ==
  FilterExpress(
    FilterPaymentMethod(
      FilterCurrency(
        FilterStatus(
          FilterMaxAmount(
            FilterMinAmount(
              FilterCorridor(
                FilterSearch(rs, f), f), f), f), f), f), f), f)

\* the records a query is run on: four of the seeded remittances
ItemPool == {SeedRemittances[1], SeedRemittances[3], SeedRemittances[4],
             SeedRemittances[6]}

\* lists of at most MaxItems records
ItemInputs == UNION {[1 .. n -> ItemPool] : n \in 0 .. MaxItems}

\* one parameter of a query: not given, or given with one of the values
Optional(name, choices) == {EmptyDict} \cup {(name :> v) : v \in choices}

\* dependencies.RemittanceFilters: every parameter is optional
\* (search min_length=2, corridor_id gt=0, min_amount and max_amount ge=0)
FilterInputs ==
  { s @@ c @@ lo @@ hi @@ st @@ cu @@ pm @@ ex :
      s \in Optional("search", {<<"g", "A", "r">>}),
      c \in Optional("corridor_id", {1}),
      lo \in Optional("min_amount", {0, 30000}),
      hi \in Optional("max_amount", {50000}),
      st \in Optional("status", {"completed"}),
      cu \in Optional("currency", {"USD"}),
      pm \in Optional("payment_method", {"cash"}),
      ex \in Optional("is_express", {TRUE, FALSE}) }

\* list_remittances hands the listed records to _apply_filters
ApplyFilters ==
  /\ request.op = "none"
  /\ request' = [op |-> "_apply_filters", id |-> None, body |-> EmptyDict]
  /\ result' = _apply_filters(items, filters)
  /\ UNCHANGED <<store, now, response, handled, week2, items, filters, loop>>

\* a query on any list of records, with any combination of filters
FilterInit ==
  /\ corridors_db = SeedCorridors
  /\ next_corridor_id = 6
  /\ remittances_db = SeedRemittances
  /\ next_remittance_id = 9
  /\ now = StartTime
  /\ request = NoRequest
  /\ response = NoResponse
  /\ handled = 0
  /\ w2_remittances_db = EmptyDict
  /\ _id_counter = 0
  /\ items \in ItemInputs
  /\ filters \in FilterInputs
  /\ result = <<>>
  /\ tasks = <<>>
  /\ running = None

FilterNext == ApplyFilters

FilterSpec == FilterInit /\ [][FilterNext]_vars

-----------------------------------------------------------------------------
(* wook-3/routers/remittances.py: the listing (sort, page, enrich) *)

\* the characters of the stored strings in ascending code point order
CodePointOrder ==
  <<" ", "-", "0", "1", "2", "3", "4", "5", "6", "7", "8", "9",
    "A", "B", "C", "D", "E", "F", "G", "H", "I", "J", "K", "L", "M",
    "N", "O", "P", "Q", "R", "S", "T", "U", "V", "W", "X", "Y", "Z",
    "a", "b", "c", "d", "e", "f", "g", "h", "i", "j", "k", "l", "m",
    "n", "o", "p", "q", "r", "s", "t", "u", "v", "w", "x", "y", "z",
    "Á", "É", "Í", "Ñ", "Ó", "Ú", "á", "é", "í", "ñ", "ó", "ú">>

\* the rank of ord(c) among the characters above
ord(c) == CHOOSE i \in DOMAIN CodePointOrder : CodePointOrder[i] = c

\* a < b on two str: the first differing character decides, a prefix is less
StrLess(a, b) ==
  \E i \in 1 .. Len(b) :
    /\ \A j \in 1 .. i - 1 : j <= Len(a) /\ a[j] = b[j]
    /\ i - 1 <= Len(a)
    /\ (i > Len(a) \/ ord(a[i]) < ord(b[i]))

\* a < b on two sort keys: sender_name is a str, the other keys are numbers
KeyLess(a, b, sort_field) ==
  IF sort_field = "sender_name" THEN StrLess(a, b) ELSE a < b

\* key=lambda x: x.get(sort_field, "")
SortKey(x, sort_field) == x[sort_field]

\* a sort that moves a record in front of the records it ties with
ComesBeforeOrTies(x, y, sort_field, reverse) ==
  IF reverse
  THEN ~ KeyLess(SortKey(x, sort_field), SortKey(y, sort_field), sort_field)
  ELSE ~ KeyLess(SortKey(y, sort_field), SortKey(x, sort_field), sort_field)

\* list.sort moves x in front of y only when x's key is strictly before y's
\* (strictly after it with reverse=True): records that tie keep their order
ComesBefore(x, y, sort_field, reverse) ==
  IF reverse
  THEN KeyLess(SortKey(y, sort_field), SortKey(x, sort_field), sort_field)
  ELSE KeyLess(SortKey(x, sort_field), SortKey(y, sort_field), sort_field)

RECURSIVE InsertSorted(_, _, _, _)
\* x, which stood behind the records of `sorted`, takes its place among them
InsertSorted(sorted, x, sort_field, reverse) ==
  IF sorted = <<>> THEN <<x>>
  ELSE IF ComesBefore(x, Head(sorted), sort_field, reverse)
       THEN <<x>> \o sorted
       ELSE <<Head(sorted)>> \o InsertSorted(Tail(sorted), x, sort_field, reverse)

RECURSIVE sort(_, _, _)
\* result.sort(key=..., reverse=reverse)
sort(rs, sort_field, reverse) ==
  IF rs = <<>> THEN <<>>
  ELSE InsertSorted(sort(SubSeq(rs, 1, Len(rs) - 1), sort_field, reverse),
                    rs[Len(rs)], sort_field, reverse)

\* a slice that also takes the element at its end index
PySliceThroughEnd(s, start, end) ==
  LET n == Len(s)
      Clip(i) == IF i < 0 THEN (IF i + n < 0 THEN 0 ELSE i + n)
                 ELSE IF i > n THEN n ELSE i
      lo == Clip(start)
      hi == Clip(end + 1)
  IN IF lo >= hi THEN <<>> ELSE SubSeq(s, lo + 1, hi)

\* a slice whose indices count from one
PySliceFromOne(s, start, end) ==
  LET n == Len(s)
      Clip(i) == IF i < 0 THEN (IF i + n < 0 THEN 0 ELSE i + n)
                 ELSE IF i > n THEN n ELSE i
      lo == Clip(start + 1)
      hi == Clip(end + 1)
  IN IF lo >= hi THEN <<>> ELSE SubSeq(s, lo + 1, hi)

\* s[start:end] of Python: a negative index counts from the end, and an
\* index beyond either end is clipped
PySlice(s, start, end) ==
  LET n == Len(s)
      Clip(i) == IF i < 0 THEN (IF i + n < 0 THEN 0 ELSE i + n)
                 ELSE IF i > n THEN n ELSE i
      lo == Clip(start)
      hi == Clip(end)
  IN IF lo >= hi THEN <<>> ELSE SubSeq(s, lo + 1, hi)

\* dependencies.PaginationParams: page ge=1, per_page ge=1 le=50; a query
\* outside these is refused by the framework before the handler runs
PaginationValid(q) ==
  /\ Given(q, "page") => q["page"] >= 1
  /\ Given(q, "per_page") => (q["per_page"] >= 1 /\ q["per_page"] <= 50)

\* an offset that counts pages from zero
PaginationParamsFromZero(q) ==
  LET page == IF Given(q, "page") THEN q["page"] ELSE 1
      per_page == IF Given(q, "per_page") THEN q["per_page"] ELSE 10
  IN [page |-> page, per_page |-> per_page, offset |-> page * per_page]

\* dependencies.PaginationParams.__init__: the defaults and the offset
PaginationParams(q) ==
  LET page == IF Given(q, "page") THEN q["page"] ELSE 1
      per_page == IF Given(q, "per_page") THEN q["per_page"] ELSE 10
  IN [page |-> page, per_page |-> per_page, offset |-> (page - 1) * per_page]

\* sorting parameters that default to ascending order
SortingParamsAscending(q) ==
  [sort_by |-> IF Given(q, "sort_by") THEN q["sort_by"] ELSE "created_at",
   order |-> IF Given(q, "order") THEN q["order"] ELSE "asc"]

\* dependencies.SortingParams.__init__: the defaults
SortingParams(q) ==
  [sort_by |-> IF Given(q, "sort_by") THEN q["sort_by"] ELSE "created_at",
   order |-> IF Given(q, "order") THEN q["order"] ELSE "desc"]

\* a page count that drops the last, shorter page
PageCountFloor(total, per_page) ==
  IF total > 0 THEN total \div per_page ELSE 1

\* pages = (total + per_page - 1) // per_page if total > 0 else 1
PageCount(total, per_page) ==
  IF total > 0 THEN (total + per_page - 1) \div per_page ELSE 1

\* schemas.PaginatedResponse, and the dict the other two handlers return
PaginatedResponse(its, total, page, per_page, pages) ==
  [items |-> its, total |-> total, page |-> page, per_page |-> per_page,
   pages |-> pages, has_next |-> page < pages, has_prev |-> page > 1]

HTTP_422_UNPROCESSABLE_ENTITY == 422

\* list_remittances from `result = list(remittances_db.values())` on: the
\* page it returns for validated parameters
PaginatedRemittances(pagination_query, filters_query, sorting_query) ==
  LET pagination == PaginationParams(pagination_query)
      sorting == SortingParams(sorting_query)
      listed == values(remittances_db)
      filtered == _apply_filters(listed, filters_query)
      sort_field == sorting.sort_by
      reverse == sorting.order = "desc"
      sorted == sort(filtered, sort_field, reverse)
      total == Len(sorted)
      pages == PageCount(total, pagination.per_page)
      start == pagination.offset
      end == start + pagination.per_page
      page_items == PySlice(sorted, start, end)
      enriched == [i \in 1 .. Len(page_items) |->
                     _enrich_with_corridor(page_items[i])]
  IN PaginatedResponse(enriched, total, pagination.page, pagination.per_page,
                       pages)

\* GET /remittances
list_remittances(pagination_query, filters_query, sorting_query) ==
  /\ handled < MaxRequests
  /\ request' = [op |-> "list_remittances", id |-> None,
                 body |-> pagination_query @@ sorting_query]
  /\ handled' = handled + 1
  /\ IF ~ PaginationValid(pagination_query)
     THEN /\ response' = [status_code |-> HTTP_422_UNPROCESSABLE_ENTITY,
                          detail |-> "request_validation"]
          /\ UNCHANGED <<query, remittances_db>>
     ELSE LET page == PaginatedRemittances(pagination_query, filters_query,
                                           sorting_query)
              page_items == [i \in DOMAIN page.items |-> page.items[i].remittance]
          IN /\ remittances_db' = enriched_db(page_items)
             /\ items' = values(remittances_db)
             /\ filters' = filters_query
             /\ result' = page
             /\ response' = [status_code |-> HTTP_200_OK, detail |-> "ok"]
  /\ UNCHANGED <<corridors_db, next_corridor_id, next_remittance_id>>
  /\ UNCHANGED <<now, week2, loop>>

\* GET /remittances for page 1, 2, ... up to the page count the first answer
\* gives, with one page size, one set of filters and one sort order: the
\* answers in the order of the requests
list_remittances_pages(per_page, filters_query, sorting_query) ==
  /\ handled < MaxRequests
  /\ request' = [op |-> "list_remittances_pages", id |-> None,
                 body |-> ("per_page" :> per_page) @@ sorting_query]
  /\ handled' = handled + 1
  /\ LET Page(p) == PaginatedRemittances(("page" :> p) @@ ("per_page" :> per_page),
                                         filters_query, sorting_query)
     IN result' = [p \in 1 .. Page(1).pages |-> Page(p)]
  /\ items' = values(remittances_db)
  /\ filters' = filters_query
  /\ response' = [status_code |-> HTTP_200_OK, detail |-> "ok"]
  /\ UNCHANGED <<store, now, week2, loop>>

\* GET /corridors/{corridor_id}/remittances
get_corridor_remittances(corridor_id, pagination_query) ==
  /\ handled < MaxRequests
  /\ request' = [op |-> "get_corridor_remittances", id |-> corridor_id,
                 body |-> pagination_query]
  /\ handled' = handled + 1
  /\ IF ~ PaginationValid(pagination_query)
     THEN /\ response' = [status_code |-> HTTP_422_UNPROCESSABLE_ENTITY,
                          detail |-> "request_validation"]
          /\ UNCHANGED query
     ELSE IF corridor_id \notin DOMAIN corridors_db
     THEN /\ response' = [status_code |-> HTTP_404_NOT_FOUND,
                          detail |-> "corridor_not_found"]
          /\ UNCHANGED query
     ELSE LET pagination == PaginationParams(pagination_query)
              page == pagination.page
              per_page == pagination.per_page
              listed == values(remittances_db)
              Keep(r) == r.corridor_id = corridor_id
              corridor_remittances == SelectSeq(listed, Keep)
              total == Len(corridor_remittances)
              pages == PageCount(total, per_page)
              start == (page - 1) * per_page
              end == start + per_page
              page_items == PySlice(corridor_remittances, start, end)
          IN /\ items' = listed
             /\ filters' = ("corridor_id" :> corridor_id)
             /\ result' = PaginatedResponse(page_items, total, page, per_page, pages)
                            @@ [corridor |-> corridors_db[corridor_id]]
             /\ response' = [status_code |-> HTTP_200_OK, detail |-> "ok"]
  /\ UNCHANGED <<store, now, week2, loop>>

\* GET /remittances/search: q is required, page and per_page are plain ints
\* (per_page is drawn from 0 upwards)
search_remittances(q, page, per_page) ==
  /\ handled < MaxRequests
  /\ request' = [op |-> "search_remittances", id |-> None,
                 body |-> [q |-> q, page |-> page, per_page |-> per_page]]
  /\ handled' = handled + 1
  /\ IF Len(q) < 2
     THEN /\ response' = [status_code |-> HTTP_400_BAD_REQUEST,
                          detail |-> "search_too_short"]
          /\ UNCHANGED <<query, remittances_db>>
     ELSE LET query_lower == lower(q)
              listed == values(remittances_db)
              Match(remittance) ==
                LET match == \/ In(query_lower, lower(remittance.sender_name))
                             \/ In(query_lower, lower(remittance.recipient_name))
                             \/ In(query_lower, lower(remittance.reference_code))
                    \* corridors_db.get(..., {}): a missing corridor has only
                    \* "" to search in, which holds no query of two characters
                    corridor == DictGet(corridors_db, remittance.corridor_id)
                IN \/ match
                   \/ /\ corridor # <<>>
                      /\ \/ In(query_lower, lower(corridor[1].origin_country))
                         \/ In(query_lower, lower(corridor[1].destination_country))
                         \/ In(query_lower, lower(corridor[1].code))
              matched == SelectSeq(listed, Match)
              results == [i \in 1 .. Len(matched) |->
                            _enrich_with_corridor(matched[i])]
              total == Len(results)
          IN IF total > 0 /\ per_page = 0
             THEN /\ response' = [status_code |-> HTTP_500_INTERNAL_SERVER_ERROR,
                                  detail |-> "ZeroDivisionError"]
                  /\ UNCHANGED <<query, remittances_db>>
             ELSE LET pages == PageCount(total, per_page)
                      start == (page - 1) * per_page
                  IN /\ remittances_db' = enriched_db(matched)
                     /\ items' = listed
                     /\ filters' = ("search" :> q)
                     /\ result' = PaginatedResponse(
                                    PySlice(results, start, start + per_page),
                                    total, page, per_page, pages)
                                  @@ [query |-> q]
                     /\ response' = [status_code |-> HTTP_200_OK, detail |-> "ok"]
  /\ UNCHANGED <<corridors_db, next_corridor_id, next_remittance_id>>
  /\ UNCHANGED <<now, week2, loop>>


\* GET /remittances/{remittance_id}
get_remittance(remittance_id) ==
  /\ handled < MaxRequests
  /\ request' = [op |-> "get_remittance", id |-> remittance_id, body |-> EmptyDict]
  /\ handled' = handled + 1
  /\ IF remittance_id \notin DOMAIN remittances_db
     THEN /\ response' = [status_code |-> HTTP_404_NOT_FOUND,
                          detail |-> "remittance_not_found"]
          /\ UNCHANGED <<query, remittances_db>>
     ELSE /\ remittances_db' = enriched_db(<<remittances_db[remittance_id]>>)
          /\ result' = _enrich_with_corridor(remittances_db[remittance_id])
          /\ response' = [status_code |-> HTTP_200_OK, detail |-> "ok"]
          /\ UNCHANGED <<items, filters>>
  /\ UNCHANGED <<corridors_db, next_corridor_id, next_remittance_id>>
  /\ UNCHANGED <<now, week2, loop>>
-----------------------------------------------------------------------------
(* The read side of the service: one query on a store of a few remittances *)

\* largest number of remittances in a queried store
MaxStored == 3

\* the remittance POST /remittances stores as remittance new_id at StartTime
\* for RemittanceCreateBody(4, is_express)
CreatedRemittance(new_id, is_express) ==
  [id |-> new_id,
   reference_code |-> <<"R", "E", "M", "-">> \o Digits(DateOf(StartTime))
                        \o <<"-">> \o zfill(Digits(new_id), 3),
   sender_name |-> RemittanceCreateBody(4, is_express).sender_name,
   recipient_name |-> RemittanceCreateBody(4, is_express).recipient_name,
   corridor_id |-> 4,
   amount |-> RemittanceCreateBody(4, is_express).amount,
   currency |-> RemittanceCreateBody(4, is_express).currency,
   exchange_rate |-> RemittanceCreateBody(4, is_express).exchange_rate,
   fee |-> IF is_express THEN 716 ELSE 469,
   payment_method |-> RemittanceCreateBody(4, is_express).payment_method,
   status |-> "pending",
   is_express |-> is_express,
   created_at |-> StartTime]

\* the remittances a queried store may hold: four seeded ones and two created
\* in the same minute, which tie on amount, sender_name and created_at
QueryPool ==
  1 :> SeedRemittances[1] @@ 2 :> SeedRemittances[2] @@ 3 :> SeedRemittances[3]
  @@ 5 :> SeedRemittances[5]
  @@ 9 :> CreatedRemittance(9, FALSE) @@ 10 :> CreatedRemittance(10, TRUE)

\* stores of at most MaxStored of them
StoreInputs ==
  { [k \in ids |-> QueryPool[k]] :
      ids \in {s \in SUBSET DOMAIN QueryPool : Cardinality(s) <= MaxStored} }

\* ?page=&per_page= of a query, in and out of the accepted ranges
PaginationInputs ==
  { p @@ pp : p \in Optional("page", {0, 1, 2, 3}),
              pp \in Optional("per_page", {0, 1, 2, 50, 51}) }

\* ?sort_by=&order= (schemas.RemittanceSortField, schemas.SortOrder)
SortingInputs ==
  { sb @@ o : sb \in Optional("sort_by", {"amount", "fee", "created_at",
                                           "sender_name"}),
              o \in Optional("order", {"asc", "desc"}) }

\* the filters of a listing
ListFilterInputs ==
  { EmptyDict,
    ("status" :> "completed") @@ ("currency" :> "USD"),
    ("corridor_id" :> 4) }

\* q of a search: too short, matching a remittance's own fields, matching
\* only its corridor's fields, matching nothing
SearchInputs ==
  { <<>>, <<"g">>, <<"G", "A", "R">>, <<"r", "e", "m", "-", "2", "0", "2", "4">>,
    <<"r", "U", "i", "z">>, <<"m", "é", "x", "i", "c", "o">>,
    <<"e", "s", "-", "e", "c">>, <<"E", "S", "T", "A", "D", "O", "S">>,
    <<"z", "z">> }

QueryInit ==
  /\ corridors_db = SeedCorridors
  /\ next_corridor_id = 6
  /\ remittances_db \in StoreInputs
  /\ next_remittance_id = 11
  /\ now = StartTime
  /\ request = NoRequest
  /\ response = NoResponse
  /\ handled = MaxRequests - 1
  /\ w2_remittances_db = EmptyDict
  /\ _id_counter = 0
  /\ items = <<>>
  /\ filters = EmptyDict
  /\ result = <<>>
  /\ tasks = <<>>
  /\ running = None

QueryNext ==
  \/ \E pagination \in PaginationInputs, f \in ListFilterInputs,
        sorting \in SortingInputs :
       list_remittances(pagination, f, sorting)
  \/ \E corridor_id \in CorridorIdInputs, pagination \in PaginationInputs :
       get_corridor_remittances(corridor_id, pagination)
  \/ \E q \in SearchInputs, page \in {0, 1, 2, 3},
        per_page \in {0, 1, 2, 10, 50, 51} :
       search_remittances(q, page, per_page)
  \/ get_remittance_stats
  \/ \E remittance_id \in RemittanceIdInputs : get_remittance(remittance_id)

QuerySpec == QueryInit /\ [][QueryNext]_vars

\* page sizes of a walk through the pages of a listing
PageSizeInputs == {1, 2, 3, 50}

PagesNext ==
  \E per_page \in PageSizeInputs, f \in ListFilterInputs,
     sorting \in SortingInputs :
    list_remittances_pages(per_page, f, sorting)

\* one walk through the pages of a listing on a store of a few remittances
PagesSpec == QueryInit /\ [][PagesNext]_vars

-----------------------------------------------------------------------------
(* wook-3/routers/remittances.py: the fee calculator on its own *)

\* amounts in cents (schemas: amount gt=0, le=10000)
AmountInputs == {1, 100, 150, 300, 12345, 50000, 100000, 1000000}

\* base fees in tenths of a percent (schemas: base_fee_percentage gt=0, le=15)
FeePercentageInputs == {5, 25, 35, 38, 45, 150}

\* the corridors whose fee is asked for
FeeCorridorInputs == {1, 4}

\* one call of _calculate_fee
CalculateFee ==
  /\ request.op = "none"
  /\ \E amount \in AmountInputs, corridor_id \in FeeCorridorInputs,
        is_express \in BOOLEAN :
       /\ request' = [op |-> "_calculate_fee", id |-> corridor_id,
                      body |-> [amount |-> amount, is_express |-> is_express]]
       /\ result' = _calculate_fee(amount, corridor_id, is_express)
  /\ UNCHANGED <<store, now, response, handled, week2, items, filters, loop>>

\* the seeded stores with one corridor's base fee set by an update, with or
\* without remittances, at one of two times of day
FeeInit ==
  /\ \E c \in FeeCorridorInputs, p \in FeePercentageInputs :
       corridors_db = [SeedCorridors EXCEPT ![c].base_fee_percentage = p]
  /\ next_corridor_id = 6
  /\ remittances_db \in {SeedRemittances, EmptyDict}
  /\ next_remittance_id = 9
  /\ now \in {StartTime, NextMinute(StartTime)}
  /\ request = NoRequest
  /\ response = NoResponse
  /\ handled = 0
  /\ w2_remittances_db = EmptyDict
  /\ _id_counter = 0
  /\ items = <<>>
  /\ filters = EmptyDict
  /\ result = <<>>
  /\ tasks = <<>>
  /\ running = None

FeeNext == CalculateFee

FeeSpec == FeeInit /\ [][FeeNext]_vars

-----------------------------------------------------------------------------
(* Requests handled concurrently.  Every handler is an `async def`          *)
(* coroutine run by one event loop; a coroutine gives the loop up only at   *)
(* an await, and no handler of either router contains one.  Each handler is *)
(* followed here through two positions: after its checks, after its write.  *)

\* number of requests in flight
MaxTasks == 2

\* handlers run as threads: any handler may take its next step at any time
CanRunAnyTime(t) == TRUE

\* the loop gives task t its next step only when no other handler is under way
CanRun(t) == running \in {None, t}

\* the handler of task t raised or returned
Respond(t, status_code, detail) ==
  /\ tasks' = [tasks EXCEPT ![t].pc = "done",
                            ![t].response = [status_code |-> status_code,
                                             detail |-> detail]]
  /\ running' = None

\* the handler of task t passed its checks and goes on
Proceed(t) ==
  /\ tasks' = [tasks EXCEPT ![t].pc = "checked"]
  /\ running' = t

\* create_remittance: remittance_dict
remittance_dict(new_id, remittance) ==
  [id |-> new_id,
   reference_code |-> _generate_reference_code(new_id),
   sender_name |-> remittance.sender_name,
   recipient_name |-> remittance.recipient_name,
   corridor_id |-> remittance.corridor_id,
   amount |-> remittance.amount,
   currency |-> remittance.currency,
   exchange_rate |-> remittance.exchange_rate,
   fee |-> _calculate_fee(remittance.amount, remittance.corridor_id,
                          remittance.is_express),
   payment_method |-> remittance.payment_method,
   status |-> "pending",
   is_express |-> remittance.is_express,
   created_at |-> now]

\* create_remittance up to its two checks of the corridor
create_remittance_checks(t) ==
  /\ tasks[t].request.op = "create_remittance"
  /\ tasks[t].pc = "received"
  /\ CanRun(t)
  /\ LET remittance == tasks[t].request.body
     IN IF remittance.corridor_id \notin DOMAIN corridors_db
        THEN Respond(t, HTTP_400_BAD_REQUEST, "corridor_not_found")
        ELSE IF corridor_inactive(remittance.corridor_id)
        THEN Respond(t, HTTP_400_BAD_REQUEST, "corridor_inactive")
        ELSE Proceed(t)
  /\ UNCHANGED <<store, now, request, response, handled, week2, query>>

\* create_remittance from get_next_remittance_id() on; _calculate_fee raises
\* KeyError when the corridor is no longer stored
create_remittance_writes(t) ==
  /\ tasks[t].request.op = "create_remittance"
  /\ tasks[t].pc = "checked"
  /\ CanRun(t)
  /\ LET remittance == tasks[t].request.body
         g == get_next_remittance_id
         new_id == g.current
     IN /\ next_remittance_id' = g.next_remittance_id
        /\ IF _calculate_fee_raises(remittance.amount, remittance.corridor_id,
                                    remittance.is_express)
           THEN /\ Respond(t, HTTP_500_INTERNAL_SERVER_ERROR, "KeyError")
                /\ UNCHANGED remittances_db
           ELSE /\ remittances_db' = DictSet(remittances_db, new_id,
                                             remittance_dict(new_id, remittance))
                /\ Respond(t, HTTP_201_CREATED, "ok")
  /\ UNCHANGED <<corridors_db, next_corridor_id, now, request, response,
                 handled, week2, query>>

\* delete_corridor up to its two checks
delete_corridor_checks(t) ==
  /\ tasks[t].request.op = "delete_corridor"
  /\ tasks[t].pc = "received"
  /\ CanRun(t)
  /\ LET corridor_id == tasks[t].request.id
     IN IF corridor_id \notin DOMAIN corridors_db
        THEN Respond(t, HTTP_404_NOT_FOUND, "corridor_not_found")
        ELSE IF has_remittances(corridor_id)
        THEN Respond(t, HTTP_400_BAD_REQUEST, "corridor_has_remittances")
        ELSE Proceed(t)
  /\ UNCHANGED <<store, now, request, response, handled, week2, query>>

\* del corridors_db[corridor_id], a KeyError when it is no longer stored
delete_corridor_writes(t) ==
  /\ tasks[t].request.op = "delete_corridor"
  /\ tasks[t].pc = "checked"
  /\ CanRun(t)
  /\ LET corridor_id == tasks[t].request.id
     IN IF corridor_id \notin DOMAIN corridors_db
        THEN /\ Respond(t, HTTP_500_INTERNAL_SERVER_ERROR, "KeyError")
             /\ UNCHANGED corridors_db
        ELSE /\ corridors_db' = DictDel(corridors_db, corridor_id)
             /\ Respond(t, HTTP_204_NO_CONTENT, "ok")
  /\ UNCHANGED <<next_corridor_id, remittances_db, next_remittance_id, now,
                 request, response, handled, week2, query>>

\* create_corridor up to the end of its duplicate-code loop
create_corridor_checks(t) ==
  /\ tasks[t].request.op = "create_corridor"
  /\ tasks[t].pc = "received"
  /\ CanRun(t)
  /\ IF CodeTaken(tasks[t].request.body.code, None)
     THEN Respond(t, HTTP_400_BAD_REQUEST, "duplicate_code")
     ELSE Proceed(t)
  /\ UNCHANGED <<store, now, request, response, handled, week2, query>>

\* create_corridor from get_next_corridor_id() on
create_corridor_writes(t) ==
  /\ tasks[t].request.op = "create_corridor"
  /\ tasks[t].pc = "checked"
  /\ CanRun(t)
  /\ LET corridor == tasks[t].request.body
         g == get_next_corridor_id
         new_id == g.current
         corridor_dict ==
           [id |-> new_id,
            name |-> corridor.name,
            code |-> corridor.code,
            origin_country |-> corridor.origin_country,
            destination_country |-> corridor.destination_country,
            base_fee_percentage |-> corridor.base_fee_percentage,
            is_active |-> corridor.is_active,
            created_at |-> now]
     IN /\ next_corridor_id' = g.next_corridor_id
        /\ corridors_db' = DictSet(corridors_db, new_id, corridor_dict)
        /\ Respond(t, HTTP_201_CREATED, "ok")
  /\ UNCHANGED <<remittances_db, next_remittance_id, now, request, response,
                 handled, week2, query>>

\* update_remittance up to its checks of the remittance and of a given corridor
update_remittance_checks(t) ==
  /\ tasks[t].request.op = "update_remittance"
  /\ tasks[t].pc = "received"
  /\ CanRun(t)
  /\ LET remittance_id == tasks[t].request.id
         update_data == tasks[t].request.body
     IN IF remittance_id \notin DOMAIN remittances_db
        THEN Respond(t, HTTP_404_NOT_FOUND, "remittance_not_found")
        ELSE IF \E corridor_id \in checked_corridors(remittance_id, update_data) :
                  corridor_id \notin DOMAIN corridors_db
        THEN Respond(t, HTTP_400_BAD_REQUEST, "corridor_not_found")
        ELSE IF \E corridor_id \in checked_corridors(remittance_id, update_data) :
                  corridor_inactive(corridor_id)
        THEN Respond(t, HTTP_400_BAD_REQUEST, "corridor_inactive")
        ELSE Proceed(t)
  /\ UNCHANGED <<store, now, request, response, handled, week2, query>>

\* remittances_db[remittance_id].update(update_data), a KeyError when the
\* remittance is no longer stored
update_remittance_writes(t) ==
  /\ tasks[t].request.op = "update_remittance"
  /\ tasks[t].pc = "checked"
  /\ CanRun(t)
  /\ LET remittance_id == tasks[t].request.id
         update_data == tasks[t].request.body
     IN IF remittance_id \notin DOMAIN remittances_db
        THEN /\ Respond(t, HTTP_500_INTERNAL_SERVER_ERROR, "KeyError")
             /\ UNCHANGED remittances_db
        ELSE /\ remittances_db' =
                  DictSet(remittances_db, remittance_id,
                          DictUpdate(remittances_db[remittance_id], update_data))
             /\ tasks' = [tasks EXCEPT ![t].pc = "written"]
             /\ running' = t
  /\ UNCHANGED <<corridors_db, next_corridor_id, next_remittance_id, now,
                 request, response, handled, week2, query>>

\* update_remittance from `if any(k in update_data ...)` on: the fee of the
\* record as it is stored now, a TypeError on an amount of None
update_remittance_recalculates(t) ==
  /\ tasks[t].request.op = "update_remittance"
  /\ tasks[t].pc = "written"
  /\ CanRun(t)
  /\ LET remittance_id == tasks[t].request.id
         update_data == tasks[t].request.body
     IN IF DOMAIN update_data \cap FeeFields = {}
        THEN /\ Respond(t, HTTP_200_OK, "ok")
             /\ UNCHANGED remittances_db
        ELSE IF remittance_id \notin DOMAIN remittances_db
        THEN /\ Respond(t, HTTP_500_INTERNAL_SERVER_ERROR, "KeyError")
             /\ UNCHANGED remittances_db
        ELSE LET current == remittances_db[remittance_id]
             IN IF _calculate_fee_raises(current.amount, current.corridor_id,
                                         current.is_express)
                THEN /\ Respond(t, HTTP_500_INTERNAL_SERVER_ERROR, "TypeError")
                     /\ UNCHANGED remittances_db
                ELSE /\ remittances_db' =
                          DictSet(remittances_db, remittance_id,
                                  [current EXCEPT !.fee =
                                     _calculate_fee(current.amount,
                                                    current.corridor_id,
                                                    current.is_express)])
                     /\ Respond(t, HTTP_200_OK, "ok")
  /\ UNCHANGED <<corridors_db, next_corridor_id, next_remittance_id, now,
                 request, response, handled, week2, query>>

\* get_remittance, which has one position: it returns what is stored
get_remittance_reads(t) ==
  /\ tasks[t].request.op = "get_remittance"
  /\ tasks[t].pc = "received"
  /\ CanRun(t)
  /\ LET remittance_id == tasks[t].request.id
     IN IF remittance_id \notin DOMAIN remittances_db
        THEN /\ Respond(t, HTTP_404_NOT_FOUND, "remittance_not_found")
             /\ UNCHANGED query
        ELSE /\ result' = _enrich_with_corridor(remittances_db[remittance_id])
             /\ Respond(t, HTTP_200_OK, "ok")
             /\ UNCHANGED <<items, filters>>
  /\ UNCHANGED <<store, now, request, response, handled, week2>>

\* the requests that race: a remittance for corridor 4 and one for the
\* inactive corridor 5, the deletion of corridor 4 and of corridor 1, a
\* corridor with a new code (sent twice when both tasks pick it) and one
\* with a stored code, a new amount and a null amount for remittance 3, and
\* a read of remittance 3
ConcRequests ==
  { [op |-> "create_remittance", id |-> None, body |-> RemittanceCreateBody(4, FALSE)],
    [op |-> "create_remittance", id |-> None, body |-> RemittanceCreateBody(5, FALSE)],
    [op |-> "delete_corridor", id |-> 4, body |-> EmptyDict],
    [op |-> "delete_corridor", id |-> 1, body |-> EmptyDict],
    [op |-> "create_corridor", id |-> None, body |-> CorridorCreateBody(Code_CA_MX, TRUE)],
    [op |-> "create_corridor", id |-> None, body |-> CorridorCreateBody(Code_ES_EC, TRUE)],
    [op |-> "update_remittance", id |-> 3, body |-> [amount |-> 20000]],
    [op |-> "update_remittance", id |-> 3, body |-> [amount |-> None]],
    [op |-> "get_remittance", id |-> 3, body |-> EmptyDict] }

\* the seeded stores after DELETE /remittances/4, which leaves the active
\* corridor 4 without remittances; MaxTasks requests have arrived
ConcInit ==
  /\ corridors_db = SeedCorridors
  /\ next_corridor_id = 6
  /\ remittances_db = DictDel(SeedRemittances, 4)
  /\ next_remittance_id = 9
  /\ now = StartTime
  /\ request = NoRequest
  /\ response = NoResponse
  /\ handled = 0
  /\ w2_remittances_db = EmptyDict
  /\ _id_counter = 0
  /\ items = <<>>
  /\ filters = EmptyDict
  /\ result = <<>>
  /\ tasks \in [1 .. MaxTasks ->
                  {[request |-> r, pc |-> "received", response |-> NoResponse] :
                     r \in ConcRequests}]
  /\ running = None

ConcNext ==
  \E t \in DOMAIN tasks :
    \/ create_remittance_checks(t)
    \/ create_remittance_writes(t)
    \/ delete_corridor_checks(t)
    \/ delete_corridor_writes(t)
    \/ create_corridor_checks(t)
    \/ create_corridor_writes(t)
    \/ update_remittance_checks(t)
    \/ update_remittance_writes(t)
    \/ update_remittance_recalculates(t)
    \/ get_remittance_reads(t)

ConcSpec == ConcInit /\ [][ConcNext]_vars
-----------------------------------------------------------------------------
(* Reference codes: the remittance handlers on the seeded store, at the     *)
(* start of the service and after 990 remittances were created and deleted, *)
(* when the counter stands at 999                                           *)

\* identifiers of remittance requests when the counter has reached 999
HighIdInputs == {3, 999, 1000}

CodeInit ==
  /\ corridors_db = SeedCorridors
  /\ next_corridor_id = 6
  /\ remittances_db = SeedRemittances
  /\ next_remittance_id \in {9, 999}
  /\ now = StartTime
  /\ request = NoRequest
  /\ response = NoResponse
  /\ handled = 0
  /\ w2_remittances_db = EmptyDict
  /\ _id_counter = 0
  /\ items = <<>>
  /\ filters = EmptyDict
  /\ result = <<>>
  /\ tasks = <<>>
  /\ running = None

CodeNext ==
  \/ \E remittance \in RemittanceCreateBodies : create_remittance(remittance)
  \/ \E remittance_id \in HighIdInputs, remittance \in RemittanceCreateBodies :
       replace_remittance(remittance_id, remittance)
  \/ \E remittance_id \in HighIdInputs, remittance \in RemittanceUpdateBodies :
       update_remittance(remittance_id, remittance)
  \/ \E remittance_id \in HighIdInputs : delete_remittance(remittance_id)
  \/ Tick

CodeSpec == CodeInit /\ [][CodeNext]_vars
-----------------------------------------------------------------------------
(* The error kinds of the specification, as the handlers answer them *)

\* the step answers a request
Answers(op) == handled' = handled + 1 /\ request'.op = op

IsNotFound(r) == r.status_code = HTTP_404_NOT_FOUND

IsValidationError(r) ==
  /\ r.status_code = HTTP_400_BAD_REQUEST
  /\ r.detail \in {"corridor_not_found", "corridor_inactive", "search_too_short"}

IsConflictError(r) ==
  /\ r.status_code = HTTP_400_BAD_REQUEST
  /\ r.detail \in {"duplicate_code", "corridor_has_remittances",
                   "status_not_deletable"}

IsSuccess(r) == r.status_code < HTTP_400_BAD_REQUEST

-----------------------------------------------------------------------------
(* Claims *)

\* C1: in every reachable state every stored remittance names a corridor that
\* is in the corridor collection, so enriching it never yields a null corridor.
C1_ReferentialIntegrity ==
  \A rid \in DOMAIN remittances_db :
    /\ remittances_db[rid].corridor_id \in DOMAIN corridors_db
    /\ _enrich_with_corridor(remittances_db[rid]).corridor # <<>>

\* a remittance was moved to corridor 3 and the deletion of the corridor it
\* left, still referenced by none, went through
C1_Witness ==
  /\ request.op = "delete_corridor"
  /\ request.id = 4
  /\ response.status_code = HTTP_204_NO_CONTENT
  /\ 4 \in DOMAIN remittances_db
  /\ remittances_db[4].corridor_id = 3

\* C2: delete_corridor on an existing corridor answers ConflictError and leaves
\* both collections as they were when a stored remittance references the
\* corridor; otherwise it succeeds and removes exactly that corridor.
C2_DeleteCorridorGuard ==
  [][ (Answers("delete_corridor") /\ request'.id \in DOMAIN corridors_db) =>
        IF \E rid \in DOMAIN remittances_db :
             remittances_db[rid].corridor_id = request'.id
        THEN /\ IsConflictError(response')
             /\ corridors_db' = corridors_db
             /\ remittances_db' = remittances_db
        ELSE /\ response'.status_code = HTTP_204_NO_CONTENT
             /\ DOMAIN corridors_db' = DOMAIN corridors_db \ {request'.id}
             /\ \A cid \in DOMAIN corridors_db' : corridors_db'[cid] = corridors_db[cid]
             /\ remittances_db' = remittances_db ]_vars

\* corridor 4 is deleted once remittance 4, the only one that referenced it, is gone
C2_Witness ==
  /\ request.op = "delete_corridor"
  /\ request.id = 4
  /\ response.status_code = HTTP_204_NO_CONTENT
  /\ 4 \notin DOMAIN remittances_db
  /\ 4 \notin DOMAIN corridors_db

\* the fee rule of the specification, in cents and tenths of a percent:
\* amount * (basePct + 2 if express) / 100 rounded to 2 decimals
ComputeFee(amount, basePct, isExpress) ==
  LET pct == IF isExpress THEN basePct + 20 ELSE basePct
      exact == amount * pct
      down == exact \div 1000
  IN IF 2 * (exact - down * 1000) < 1000 THEN down
     ELSE IF 2 * (exact - down * 1000) > 1000 THEN down + 1
     ELSE down + (down % 2)

\* C3: after a successful replace, or a successful partial update that supplies
\* amount, corridor_id or is_express, the stored fee is the fee rule applied to
\* the record's resulting amount, the base fee of its resulting corridor and its
\* resulting is_express; a partial update supplying none of the three leaves
\* the stored fee as it was.
C3_FeeRecomputed ==
  [][ ((Answers("replace_remittance") \/ Answers("update_remittance"))
        /\ IsSuccess(response')) =>
        LET rid == request'.id
            r == remittances_db'[rid]
        IN IF \/ request'.op = "replace_remittance"
              \/ "amount" \in DOMAIN request'.body
              \/ "corridor_id" \in DOMAIN request'.body
              \/ "is_express" \in DOMAIN request'.body
           THEN r.fee = ComputeFee(r.amount,
                                   corridors_db'[r.corridor_id].base_fee_percentage,
                                   r.is_express)
           ELSE r.fee = remittances_db[rid].fee ]_vars

\* a partial update that only sets is_express on remittance 4 has succeeded
C3_Witness ==
  /\ request.op = "update_remittance"
  /\ request.id = 4
  /\ DOMAIN request.body = {"is_express"}
  /\ request.body["is_express"]
  /\ response.status_code = HTTP_200_OK
  /\ remittances_db[4].fee = 4640

\* C4: an operation that ends in an error leaves both collections and both
\* identifier counters as they were before the call.
C4_AtomicOnFailure ==
  [][ (handled' = handled + 1 /\ IsError(response')) =>
        /\ corridors_db' = corridors_db
        /\ remittances_db' = remittances_db
        /\ next_corridor_id' = next_corridor_id
        /\ next_remittance_id' = next_remittance_id ]_vars

\* C5: create_remittance answers ValidationError when corridor_id names no
\* stored corridor or a corridor whose is_active is false; update_remittance of
\* a stored remittance answers ValidationError when the corridor_id it supplies
\* names no stored corridor. In each case the remittance collection is as before.
C5_CorridorChecked ==
  [][ /\ (Answers("create_remittance")
           /\ (\/ request'.body.corridor_id \notin DOMAIN corridors_db
               \/ corridors_db[request'.body.corridor_id].is_active = FALSE))
        => (IsValidationError(response') /\ remittances_db' = remittances_db)
      /\ (Answers("update_remittance")
           /\ request'.id \in DOMAIN remittances_db
           /\ "corridor_id" \in DOMAIN request'.body
           /\ request'.body["corridor_id"] \notin DOMAIN corridors_db)
        => (IsValidationError(response') /\ remittances_db' = remittances_db) ]_vars

\* a creation on the inactive corridor 5 was refused
C5_Witness ==
  /\ request.op = "create_remittance"
  /\ request.body.corridor_id = 5
  /\ 5 \in DOMAIN corridors_db
  /\ ~ corridors_db[5].is_active
  /\ response.status_code = HTTP_400_BAD_REQUEST
  /\ response.detail = "corridor_inactive"

\* C6: delete_remittance removes a stored remittance exactly when its status
\* is pending or cancelled; for processing, completed or failed it answers
\* ConflictError and the remittance stays as it is; for an unknown id it
\* answers NotFound.
C6_DeleteRemittanceGuard ==
  [][ Answers("delete_remittance") =>
        LET rid == request'.id
        IN IF rid \notin DOMAIN remittances_db
           THEN IsNotFound(response') /\ remittances_db' = remittances_db
           ELSE IF remittances_db[rid].status \in {"pending", "cancelled"}
           THEN /\ IsSuccess(response')
                /\ DOMAIN remittances_db' = DOMAIN remittances_db \ {rid}
                /\ \A i \in DOMAIN remittances_db' :
                     remittances_db'[i] = remittances_db[i]
           ELSE /\ remittances_db[rid].status \in {"processing", "completed", "failed"}
                   => IsConflictError(response')
                /\ remittances_db' = remittances_db ]_vars

\* the deletion of remittance 4, completed by an update, was refused
C6_Witness ==
  /\ request.op = "delete_remittance"
  /\ request.id = 4
  /\ 4 \in DOMAIN remittances_db
  /\ remittances_db[4].status = "completed"
  /\ response.status_code = HTTP_400_BAD_REQUEST
  /\ response.detail = "status_not_deletable"

\* every stored identifier lies below the counter of its type
C7_BelowCounter ==
  /\ \A i \in DOMAIN corridors_db : i < next_corridor_id
  /\ \A i \in DOMAIN remittances_db : i < next_remittance_id
  /\ \A i \in DOMAIN w2_remittances_db : i <= _id_counter

\* a step gives a new record an identifier no lower than the counter stood,
\* and no counter ever goes back
C7_AssignedAboveCounter ==
  /\ next_corridor_id' >= next_corridor_id
  /\ \A i \in DOMAIN corridors_db' \ DOMAIN corridors_db :
       next_corridor_id <= i /\ i < next_corridor_id'
  /\ next_remittance_id' >= next_remittance_id
  /\ \A i \in DOMAIN remittances_db' \ DOMAIN remittances_db :
       next_remittance_id <= i /\ i < next_remittance_id'
  /\ _id_counter' >= _id_counter
  /\ \A i \in DOMAIN w2_remittances_db' \ DOMAIN w2_remittances_db :
       _id_counter < i /\ i <= _id_counter'

\* C7: for each entity type every newly assigned identifier is strictly greater
\* than every identifier assigned before it, the seeded ones and those of
\* deleted records included: all identifiers assigned so far lie below the
\* type's counter, a new one does not, and the counter never decreases.
C7_FreshIdentifiers == [] C7_BelowCounter /\ [][C7_AssignedAboveCounter]_vars

\* remittance 4 was deleted and the remittance created after that got id 9
C7_Witness ==
  /\ request.op = "create_remittance"
  /\ response.status_code = HTTP_201_CREATED
  /\ 4 \notin DOMAIN remittances_db
  /\ 9 \in DOMAIN remittances_db

\* C8: a remittance keeps its id, its reference code and its creation time
\* through every step, replace and partial update included, for as long as it
\* is stored.
C8_Immutable ==
  [][ \A rid \in DOMAIN remittances_db \cap DOMAIN remittances_db' :
        /\ remittances_db'[rid].id = remittances_db[rid].id
        /\ remittances_db'[rid].id = rid
        /\ remittances_db'[rid].reference_code = remittances_db[rid].reference_code
        /\ remittances_db'[rid].created_at = remittances_db[rid].created_at ]_vars

\* remittance 9, created a minute earlier, has been replaced
C8_Witness ==
  /\ request.op = "replace_remittance"
  /\ request.id = 9
  /\ response.status_code = HTTP_200_OK
  /\ remittances_db[9].created_at < now

\* no two stored corridors hold the same code
C9_CodesDistinct ==
  \A a \in DOMAIN corridors_db, b \in DOMAIN corridors_db :
    a # b => corridors_db[a]["code"] # corridors_db[b]["code"]

\* a create, replace or update carrying a code is refused with ConflictError,
\* nothing changing, exactly when another corridor holds that code
C9_DuplicateRefused ==
  (/\ \/ Answers("create_corridor")
      \/ (Answers("replace_corridor") /\ request'.id \in DOMAIN corridors_db)
      \/ (Answers("update_corridor") /\ request'.id \in DOMAIN corridors_db)
   /\ "code" \in DOMAIN request'.body) =>
    IF \E cid \in DOMAIN corridors_db :
         cid # request'.id /\ corridors_db[cid]["code"] = request'.body["code"]
    THEN /\ IsConflictError(response')
         /\ corridors_db' = corridors_db
         /\ next_corridor_id' = next_corridor_id
         /\ remittances_db' = remittances_db
    ELSE /\ ~ IsConflictError(response')
         /\ \E cid \in DOMAIN corridors_db' :
              /\ request'.op # "create_corridor" => cid = request'.id
              /\ corridors_db'[cid]["code"] = request'.body["code"]

\* C9: in every reachable state no two stored corridors have the same code;
\* a create, replace or update that would give a corridor a code held by a
\* different corridor answers ConflictError and changes nothing, and a
\* corridor's own current code is accepted on replace and update.
C9_CodeUnique == [] C9_CodesDistinct /\ [][C9_DuplicateRefused]_vars

\* corridor 4 was given its own code by a partial update, and kept it
C9_Witness ==
  /\ request.op = "update_corridor"
  /\ request.id = 4
  /\ DOMAIN request.body = {"code"}
  /\ request.body["code"] = Code_ES_EC
  /\ response.status_code = HTTP_200_OK
  /\ corridors_db[4]["code"] = Code_ES_EC

\* the record satisfies every predicate the query gives
C10_Satisfies(r, f) ==
  /\ "search" \in DOMAIN f =>
       \E field \in {r.sender_name, r.recipient_name, r.reference_code} :
         In(lower(f["search"]), lower(field))
  /\ "corridor_id" \in DOMAIN f => r.corridor_id = f["corridor_id"]
  /\ "min_amount" \in DOMAIN f => r.amount >= f["min_amount"]
  /\ "max_amount" \in DOMAIN f => r.amount <= f["max_amount"]
  /\ "status" \in DOMAIN f => r.status = f["status"]
  /\ "currency" \in DOMAIN f => r.currency = f["currency"]
  /\ "payment_method" \in DOMAIN f => r.payment_method = f["payment_method"]
  /\ "is_express" \in DOMAIN f => r.is_express = f["is_express"]

\* C10: for every combination of given and not-given predicates the filtered
\* result is the input list restricted, in order and position by position, to
\* the records that satisfy every given predicate; with no predicate given it
\* is the whole input, and min_amount = 0 and is_express = false constrain.
C10_FilterAnd ==
  request.op = "_apply_filters" =>
    LET Keep(r) == C10_Satisfies(r, filters)
    IN /\ result = SelectSeq(items, Keep)
       /\ DOMAIN filters = {} => result = items

\* min_amount = 0 and is_express = false were given, and of two records the
\* express one was dropped
C10_Witness ==
  /\ request.op = "_apply_filters"
  /\ DOMAIN filters = {"min_amount", "is_express"}
  /\ filters["min_amount"] = 0
  /\ filters["is_express"] = FALSE
  /\ Len(items) = 2
  /\ items[1].is_express
  /\ result = <<items[2]>>

\* position of a record in the store's insertion order, as the listing read it
C11_StorePosition(r) == CHOOSE k \in DOMAIN items : items[k] = r

\* C11: in the result of a listing, whichever of the four sort fields and
\* whichever direction was asked for, two records whose sort keys are equal
\* stand in the order the store holds them in
C11_StableSort ==
  (request.op = "list_remittances" /\ IsSuccess(response)) =>
    LET sort_field == IF "sort_by" \in DOMAIN request.body
                      THEN request.body["sort_by"] ELSE "created_at"
        listed == result.items
    IN \A i \in DOMAIN listed : \A j \in DOMAIN listed :
         (i < j /\ listed[i].remittance[sort_field] = listed[j].remittance[sort_field])
           => C11_StorePosition(listed[i].remittance)
                < C11_StorePosition(listed[j].remittance)

\* a descending sort by amount listed the two remittances that tie on it,
\* 9 and 10, in store order behind the larger remittance 3
C11_Witness ==
  /\ request.op = "list_remittances"
  /\ IsSuccess(response)
  /\ "sort_by" \in DOMAIN request.body
  /\ request.body["sort_by"] = "amount"
  /\ "order" \in DOMAIN request.body
  /\ request.body["order"] = "desc"
  /\ Len(result.items) = 3
  /\ result.items[1].remittance.id = 3
  /\ result.items[2].remittance.id = 9
  /\ result.items[3].remittance.id = 10

\* C12: a listing asked for page >= 1 with a page size in 1 .. 50 is answered,
\* and its page holds exactly min(pageSize, max(0, total - offset)) records,
\* offset = (page - 1) * pageSize; a page past the last one is an empty list
\* with the total and the page count of the query, not an error
C12_PageLength ==
  (request.op = "list_remittances") =>
    LET page == IF "page" \in DOMAIN request.body THEN request.body["page"] ELSE 1
        pageSize == IF "per_page" \in DOMAIN request.body
                    THEN request.body["per_page"] ELSE 10
        offset == (page - 1) * pageSize
        total == Len(_apply_filters(values(remittances_db), filters))
        rest == IF total - offset > 0 THEN total - offset ELSE 0
    IN (page >= 1 /\ pageSize >= 1 /\ pageSize <= 50) =>
         /\ IsSuccess(response)
         /\ Len(result.items) = (IF pageSize < rest THEN pageSize ELSE rest)
         /\ result.total = total
         /\ offset >= total =>
              /\ result.items = <<>>
              /\ result.pages = (IF total > 0
                                 THEN (total + pageSize - 1) \div pageSize ELSE 1)

\* page 3 of a listing of three records, two to a page, was answered empty
C12_Witness ==
  /\ request.op = "list_remittances"
  /\ DOMAIN request.body = {"page", "per_page"}
  /\ request.body["page"] = 3
  /\ request.body["per_page"] = 2
  /\ IsSuccess(response)
  /\ result.total = 3
  /\ result.pages = 2
  /\ result.items = <<>>

\* the records a listing's filters, or a corridor's listing, select
C13_Matching ==
  IF request.op = "list_remittances"
  THEN _apply_filters(values(remittances_db), filters)
  ELSE LET OfCorridor(r) == r.corridor_id = request.id
       IN SelectSeq(values(remittances_db), OfCorridor)

\* C13: a listing (of all remittances, or of one corridor's) reports total =
\* the number of records that match, whatever page and page size were asked
\* for; pages = the least number of pages of that size holding them all, and
\* 1 when there is none; has_next = (page < pages); has_prev = (page > 1)
C13_PageMetadata ==
  (request.op \in {"list_remittances", "get_corridor_remittances"}
     /\ IsSuccess(response)) =>
    /\ result.total = Len(C13_Matching)
    /\ result.total = 0 => result.pages = 1
    /\ result.total > 0 =>
         /\ result.pages * result.per_page >= result.total
         /\ (result.pages - 1) * result.per_page < result.total
    /\ result.has_next = (result.page < result.pages)
    /\ result.has_prev = (result.page > 1)
    /\ result.page = (IF "page" \in DOMAIN request.body
                      THEN request.body["page"] ELSE 1)
    /\ result.per_page = (IF "per_page" \in DOMAIN request.body
                          THEN request.body["per_page"] ELSE 10)

\* three completed USD remittances, page = 1 and per_page = 1: one item,
\* total 3, pages 3, a next page and no previous one
C13_Witness ==
  /\ request.op = "list_remittances"
  /\ IsSuccess(response)
  /\ DOMAIN filters = {"status", "currency"}
  /\ DOMAIN request.body = {"page", "per_page"}
  /\ request.body["page"] = 1
  /\ request.body["per_page"] = 1
  /\ Len(result.items) = 1
  /\ result.total = 3
  /\ result.pages = 3
  /\ result.has_next
  /\ ~ result.has_prev

RECURSIVE C14_Sum(_, _)
\* the sum of one field over the remittances with the given ids
C14_Sum(ids, field) ==
  IF ids = {} THEN 0
  ELSE LET k == CHOOSE k \in ids : TRUE
       IN remittances_db[k][field] + C14_Sum(ids \ {k}, field)

\* the number of the given remittances in each status some of them has
C14_StatusMap(ids) ==
  [st \in {remittances_db[k].status : k \in ids} |->
     Cardinality({k \in ids : remittances_db[k].status = st})]

\* avg is sum / count to the cent, and 0 when count is 0
C14_IsAverage(avg, total, count) ==
  IF count = 0 THEN avg = 0
  ELSE /\ 2 * (avg * count - total) <= count
       /\ 2 * (total - avg * count) <= count

\* C14: in every state the statistics are answered; for each stored corridor
\* they report the count of its remittances, the sum of their amounts, the
\* sum of their fees, average = sum / count, and the map from status to the
\* number of them in that status; the summary reports the same five over all
\* remittances; with no remittances count, sum and average are 0
C14_Aggregation ==
  (request.op = "get_remittance_stats") =>
    /\ IsSuccess(response)
    /\ \A c \in DOMAIN corridors_db :
         LET own == {k \in DOMAIN remittances_db : remittances_db[k].corridor_id = c}
             s == result.by_corridor[corridors_db[c].code]
         IN /\ s.total_remittances = Cardinality(own)
            /\ s.total_amount = C14_Sum(own, "amount")
            /\ s.total_fees = C14_Sum(own, "fee")
            /\ C14_IsAverage(s.average_amount, s.total_amount, s.total_remittances)
            /\ s.by_status = C14_StatusMap(own)
    /\ LET all == DOMAIN remittances_db
           s == result.summary
       IN /\ s.total_remittances = Cardinality(all)
          /\ s.total_amount = C14_Sum(all, "amount")
          /\ s.total_fees_collected = C14_Sum(all, "fee")
          /\ C14_IsAverage(s.average_amount, s.total_amount, s.total_remittances)
          /\ "by_status" \in DOMAIN s
          /\ s["by_status"] = C14_StatusMap(all)

C16_Occurs(q, field) == In(upper(q), upper(field))

\* q occurs in the sender name, the recipient name or the reference code of
\* the remittance, or in the origin country, the destination country or the
\* code of its corridor
C16_Matches(r, q) ==
  \/ C16_Occurs(q, r.sender_name)
  \/ C16_Occurs(q, r.recipient_name)
  \/ C16_Occurs(q, r.reference_code)
  \/ /\ r.corridor_id \in DOMAIN corridors_db
     /\ \/ C16_Occurs(q, corridors_db[r.corridor_id].origin_country)
        \/ C16_Occurs(q, corridors_db[r.corridor_id].destination_country)
        \/ C16_Occurs(q, corridors_db[r.corridor_id].code)

\* C16: a search for a query of fewer than 2 characters fails with a
\* ValidationError; any other search (asked for a page >= 1 of size >= 1)
\* matches exactly the stored remittances in one of whose six fields the
\* query occurs, case ignored
C16_SearchMatching ==
  (request.op = "search_remittances") =>
    LET q == request.body.q
        matching == {k \in DOMAIN remittances_db : C16_Matches(remittances_db[k], q)}
    IN /\ Len(q) < 2 => IsValidationError(response)
       /\ (Len(q) >= 2 /\ request.body.page >= 1 /\ request.body.per_page >= 1) =>
            /\ IsSuccess(response)
            /\ result.total = Cardinality(matching)
            /\ \A i \in DOMAIN result.items : result.items[i].remittance.id \in matching
            /\ (request.body.page = 1 /\ request.body.per_page >= result.total) =>
                 {result.items[i].remittance.id : i \in DOMAIN result.items} = matching

\* "méxico" was searched for: remittance 1 matched through the destination
\* country of its corridor alone, and remittance 3 did not match
C16_Witness ==
  /\ request.op = "search_remittances"
  /\ request.body.q = <<"m", "é", "x", "i", "c", "o">>
  /\ request.body.page = 1
  /\ request.body.per_page = 10
  /\ {1, 3} \subseteq DOMAIN remittances_db
  /\ IsSuccess(response)
  /\ \E i \in DOMAIN result.items : result.items[i].remittance.id = 1
  /\ \A i \in DOMAIN result.items : result.items[i].remittance.id # 3

\* every remittance names a stored corridor
C17_ReferentialIntegrity ==
  \A k \in DOMAIN remittances_db : remittances_db[k].corridor_id \in DOMAIN corridors_db

\* no two corridors share a code
C17_CodesUnique ==
  \A c \in DOMAIN corridors_db : \A d \in DOMAIN corridors_db :
    corridors_db[c].code = corridors_db[d].code => c = d

\* every record is stored under its own identifier, below its counter
C17_IdentifiersUnique ==
  /\ \A c \in DOMAIN corridors_db :
       corridors_db[c].id = c /\ c < next_corridor_id
  /\ \A k \in DOMAIN remittances_db :
       remittances_db[k].id = k /\ k < next_remittance_id

\* C17: with requests in flight together, a handler's checks and its write
\* are one step to every other handler (none starts between them), and
\* after every interleaving referential integrity, the uniqueness of
\* corridor codes and the uniqueness of identifiers hold
C17_SerializedMutation ==
  /\ \A t \in DOMAIN tasks : \A u \in DOMAIN tasks :
       (tasks[t].pc = "checked" /\ tasks[u].pc = "checked") => t = u
  /\ C17_ReferentialIntegrity
  /\ C17_CodesUnique
  /\ C17_IdentifiersUnique

\* a remittance for corridor 4 raced with the deletion of corridor 4: the
\* remittance was stored and the deletion, handled after it, refused
C17_Witness ==
  /\ Len(tasks) >= 2
  /\ tasks[1].request.op = "delete_corridor"
  /\ tasks[1].request.id = 4
  /\ tasks[1].pc = "done"
  /\ tasks[1].response.detail = "corridor_has_remittances"
  /\ tasks[2].request.op = "create_remittance"
  /\ tasks[2].pc = "done"
  /\ tasks[2].response.status_code = HTTP_201_CREATED
  /\ 9 \in DOMAIN remittances_db
  /\ remittances_db[9].corridor_id = 4
  /\ 4 \in DOMAIN corridors_db

\* C18: a successful createRemittance adds exactly one remittance, under an
\* identifier no remittance holds and none was given before; it is stored
\* with the fields of the request, status pending and fee = computeFee(amount,
\* base fee of the corridor it names, is_express); every other remittance
\* and every corridor stay as they were
C18_CreateRemittance ==
  [][ (Answers("create_remittance") /\ IsSuccess(response')) =>
        LET body == request'.body
            added == DOMAIN remittances_db' \ DOMAIN remittances_db
        IN /\ Cardinality(added) = 1
           /\ \A k \in added :
                /\ k >= next_remittance_id
                /\ next_remittance_id' > k
                /\ remittances_db'[k].id = k
                /\ remittances_db'[k].status = "pending"
                /\ remittances_db'[k].corridor_id = body.corridor_id
                /\ remittances_db'[k].amount = body.amount
                /\ remittances_db'[k].is_express = body.is_express
                /\ remittances_db'[k].sender_name = body.sender_name
                /\ remittances_db'[k].fee =
                     ComputeFee(body.amount,
                                corridors_db[body.corridor_id].base_fee_percentage,
                                body.is_express)
           /\ \A k \in DOMAIN remittances_db :
                k \in DOMAIN remittances_db' /\ remittances_db'[k] = remittances_db[k]
           /\ corridors_db' = corridors_db
           /\ next_corridor_id' = next_corridor_id ]_vars

\* an express remittance of 123.45 was created on corridor 4 (3.8%) beside
\* the eight seeded ones: pending, fee 7.16, identifier 9
C18_Witness ==
  /\ request.op = "create_remittance"
  /\ response.status_code = HTTP_201_CREATED
  /\ request.body.is_express
  /\ handled = 1
  /\ DOMAIN remittances_db = 1 .. 9
  /\ remittances_db[9].status = "pending"
  /\ remittances_db[9].fee = 716
  /\ remittances_db[9].corridor_id = 4
  /\ corridors_db[4].base_fee_percentage = 38

\* the eight steps of _apply_filters, numbered in the implemented order
C19_Step(n, rs, f) ==
  CASE n = 1 -> FilterSearch(rs, f)
    [] n = 2 -> FilterCorridor(rs, f)
    [] n = 3 -> FilterMinAmount(rs, f)
    [] n = 4 -> FilterMaxAmount(rs, f)
    [] n = 5 -> FilterStatus(rs, f)
    [] n = 6 -> FilterCurrency(rs, f)
    [] n = 7 -> FilterPaymentMethod(rs, f)
    [] n = 8 -> FilterExpress(rs, f)

RECURSIVE C19_ApplyInOrder(_, _, _)
\* the steps applied in the given order
C19_ApplyInOrder(order, rs, f) ==
  IF order = <<>> THEN rs
  ELSE C19_ApplyInOrder(Tail(order), C19_Step(Head(order), rs, f), f)

\* the implemented order with steps a and b exchanged
C19_Swapped(a, b) ==
  [n \in 1 .. 8 |-> IF n = a THEN b ELSE IF n = b THEN a ELSE n]

\* reorderings applied in full: the order reversed, the first step exchanged
\* with the last, the two amount steps exchanged
C19_Orders ==
  {[n \in 1 .. 8 |-> 9 - n], C19_Swapped(1, 8), C19_Swapped(3, 4)}

\* the steps whose predicate is present (a step without one returns its input)
C19_Present(f) ==
  LET name == <<"search", "corridor_id", "min_amount", "max_amount", "status",
                "currency", "payment_method", "is_express">>
  IN {n \in 1 .. 8 : name[n] \in DOMAIN f}

\* C19: whatever the records and whichever predicates are present, any two
\* of the present predicates give the same list applied in either order, so
\* that every order of the steps gives the list the implemented order gives,
\* as the reorderings applied in full do
C19_FilterCommutes ==
  (request.op = "_apply_filters") =>
    /\ \A a \in C19_Present(filters) : \A b \in C19_Present(filters) :
         a < b =>
           C19_Step(a, C19_Step(b, items, filters), filters)
             = C19_Step(b, C19_Step(a, items, filters), filters)
    /\ \A order \in C19_Orders : C19_ApplyInOrder(order, items, filters) = result

\* status and payment method were given; each alone drops one of the two
\* records, the other one, and together they drop both
C19_Witness ==
  /\ request.op = "_apply_filters"
  /\ DOMAIN filters = {"status", "payment_method"}
  /\ Len(items) = 2
  /\ Len(FilterStatus(items, filters)) = 1
  /\ Len(FilterPaymentMethod(items, filters)) = 1
  /\ FilterStatus(items, filters) # FilterPaymentMethod(items, filters)
  /\ result = <<>>

\* a's sort key does not come after b's
C20_KeyAtMost(a, b, sort_field) ==
  IF sort_field = "sender_name"
  THEN a[sort_field] = b[sort_field] \/ StrLess(a[sort_field], b[sort_field])
  ELSE a[sort_field] <= b[sort_field]

\* C20: the records of a listing stand with non-decreasing sort keys when
\* the direction is ascending and non-increasing ones when it is descending,
\* for each of the four sort fields; without a sort field the key is the
\* creation timestamp and without a direction the direction is descending;
\* a listing that holds all matching records on one page holds each of the
\* filtered records exactly once
C20_SortOrder ==
  (request.op = "list_remittances" /\ IsSuccess(response)) =>
    LET sort_field == IF "sort_by" \in DOMAIN request.body
                      THEN request.body["sort_by"] ELSE "created_at"
        descending == IF "order" \in DOMAIN request.body
                      THEN request.body["order"] = "desc" ELSE TRUE
        listed == [i \in DOMAIN result.items |-> result.items[i].remittance]
        filtered == _apply_filters(values(remittances_db), filters)
    IN /\ \A i \in DOMAIN listed : \A j \in DOMAIN listed :
            i < j => IF descending
                     THEN C20_KeyAtMost(listed[j], listed[i], sort_field)
                     ELSE C20_KeyAtMost(listed[i], listed[j], sort_field)
       /\ Len(listed) = result.total =>
            /\ Len(listed) = Len(filtered)
            /\ \A i \in DOMAIN filtered :
                 Cardinality({j \in DOMAIN listed : listed[j] = filtered[i]}) = 1

\* a listing asked for without sort field or direction put the later
\* created remittance 3 in front of remittances 2 and 1
C20_Witness ==
  /\ request.op = "list_remittances"
  /\ IsSuccess(response)
  /\ request.body = EmptyDict
  /\ filters = EmptyDict
  /\ Len(result.items) = 3
  /\ result.items[1].remittance.id = 3
  /\ result.items[2].remittance.id = 2
  /\ result.items[3].remittance.id = 1


\* the identifiers of the stored remittances a search for q matches
C21_Matched(q) ==
  {k \in DOMAIN remittances_db : C16_Matches(remittances_db[k], q)}

\* C21: a search for a query of 2 characters or more, asked for page >= 1 with
\* a page size in 1 .. 50, returns the matched remittances in creation order
\* (ascending identifier), from offset (page - 1) * pageSize on and at most
\* pageSize of them; total, pages, has_next and has_prev follow the formulas
\* of the listing for a sequence of that length
C21_SearchPagination ==
  (request.op = "search_remittances" /\ Len(request.body.q) >= 2
     /\ request.body.page >= 1
     /\ request.body.per_page >= 1 /\ request.body.per_page <= 50) =>
    LET page == request.body.page
        pageSize == request.body.per_page
        matched == C21_Matched(request.body.q)
        Position(k) == Cardinality({j \in matched : j <= k})
        total == Cardinality(matched)
        offset == (page - 1) * pageSize
        rest == IF total - offset > 0 THEN total - offset ELSE 0
        pages == IF total > 0 THEN (total + pageSize - 1) \div pageSize ELSE 1
    IN /\ IsSuccess(response)
       /\ Len(result.items) = (IF pageSize < rest THEN pageSize ELSE rest)
       /\ \A i \in DOMAIN result.items :
            LET k == result.items[i].remittance.id
            IN /\ k \in matched
               /\ Position(k) = offset + i
               /\ result.items[i].remittance = remittances_db[k]
       /\ result.total = total
       /\ result.pages = pages
       /\ result.has_next = (page < pages)
       /\ result.has_prev = (page > 1)

\* page 2 of a search that matches three remittances, two to a page: the
\* third one alone, a previous page and no next one
C21_Witness ==
  /\ request.op = "search_remittances"
  /\ request.body.page = 2
  /\ request.body.per_page = 2
  /\ IsSuccess(response)
  /\ result.total = 3
  /\ result.pages = 2
  /\ Len(result.items) = 1
  /\ \A k \in DOMAIN remittances_db : result.items[1].remittance.id >= k
  /\ result.has_prev
  /\ ~ result.has_next


\* C22: a search asked for a page below 1, or for a page size outside
\* 1 .. 50, is refused as invalid, as a listing is: it is answered neither
\* with a page nor with a failure of the page arithmetic
C22_SearchBounds ==
  (request.op = "search_remittances"
     /\ (request.body.page < 1 \/ request.body.per_page < 1
           \/ request.body.per_page > 50)) =>
    \/ IsValidationError(response)
    \/ response.status_code = HTTP_422_UNPROCESSABLE_ENTITY


\* the operations that only read the store
C23_ReadOnly ==
  {"get_remittance_stats", "list_remittances", "search_remittances",
   "get_remittance", "get_corridor_remittances"}

\* C23: a statistics, listing, search or single-record request, answered or
\* refused, leaves the corridors, the remittances (every record, field by
\* field, and the order they are iterated in) and both identifier counters
\* as they were
C23_ReadsArePure ==
  [][request'.op \in C23_ReadOnly =>
       /\ corridors_db' = corridors_db
       /\ DOMAIN remittances_db' = DOMAIN remittances_db
       /\ \A k \in DOMAIN remittances_db :
            /\ DOMAIN remittances_db'[k] = DOMAIN remittances_db[k]
            /\ remittances_db'[k] = remittances_db[k]
       /\ values(remittances_db') = values(remittances_db)
       /\ next_corridor_id' = next_corridor_id
       /\ next_remittance_id' = next_remittance_id]_vars

\* remittance 9 was read with its corridor, and the stored record has no
\* "corridor" field
C23_Witness ==
  /\ request.op = "get_remittance"
  /\ request.id = 9
  /\ IsSuccess(response)
  /\ result.remittance = remittances_db[9]
  /\ result.corridor = <<corridors_db[4]>>
  /\ "corridor" \notin DOMAIN remittances_db[9]


\* the answer to a refused state transition
C24_IsConflict(r) ==
  \/ IsConflictError(r)
  \/ r.status_code \in {HTTP_400_BAD_REQUEST, HTTP_409_CONFLICT}
       /\ r.detail = "cannot_complete_cancelled"

\* the request asks for remittance k of the store db, cancelled there, to be
\* completed
C24_AsksToComplete(r, update, complete, db, cancelled, completed) ==
  /\ r.id \in DOMAIN db
  /\ db[r.id].status = cancelled
  /\ \/ r.op \in complete
     \/ /\ r.op \in update
        /\ "status" \in DOMAIN r.body
        /\ r.body["status"] = completed

\* C24: no step takes a cancelled remittance to completed, in the service of
\* either week; an update or a completion asking for it is refused as a
\* conflict and the remittance stays cancelled
C24_CancelledIsFinal ==
  [][/\ \A k \in DOMAIN remittances_db \cap DOMAIN remittances_db' :
          remittances_db[k].status = "cancelled" =>
            remittances_db'[k].status # "completed"
     /\ \A k \in DOMAIN w2_remittances_db \cap DOMAIN w2_remittances_db' :
          w2_remittances_db[k].status = "cancelada" =>
            w2_remittances_db'[k].status # "completada"
     /\ C24_AsksToComplete(request', {"update_remittance"}, {},
                           remittances_db, "cancelled", "completed") =>
          /\ C24_IsConflict(response')
          /\ remittances_db'[request'.id].status = "cancelled"
     /\ C24_AsksToComplete(request', {"w2_update_remittance"},
                           {"w2_complete_remittance"},
                           w2_remittances_db, "cancelada", "completada") =>
          /\ C24_IsConflict(response')
          /\ w2_remittances_db'[request'.id].status = "cancelada"]_vars


\* the record is as the seed has it, or its fee is the one computed from
\* its amount, its corridor and its express flag
C25_Whole(r) ==
  \/ r = SeedRemittances[r.id]
  \/ /\ ~ _calculate_fee_raises(r.amount, r.corridor_id, r.is_express)
     /\ r.fee = _calculate_fee(r.amount, r.corridor_id, r.is_express)

\* C25: a read of a remittance that arrives while partial updates of it are
\* in flight returns the record as it was before an update or as a whole
\* update left it, never the new amount beside the fee of the old one
C25_ConsistentSnapshot ==
  [][\A t \in DOMAIN tasks :
       (/\ tasks[t].request.op = "get_remittance"
        /\ tasks[t].pc = "received"
        /\ tasks'[t].pc = "done"
        /\ IsSuccess(tasks'[t].response)) =>
         C25_Whole(result'.remittance)]_vars


\* the step answers a corridor request that leaves the stored corridor inactive
C26_Deactivates ==
  /\ request'.op \in {"update_corridor", "replace_corridor"}
  /\ handled' = handled + 1
  /\ request'.id \in DOMAIN corridors_db
  /\ corridors_db[request'.id].is_active
  /\ ~ corridors_db'[request'.id].is_active

\* the step answers a partial update of nothing but the status of a stored
\* remittance whose corridor is inactive
C26_StatusOnly ==
  /\ request'.op = "update_remittance"
  /\ handled' = handled + 1
  /\ DOMAIN request'.body = {"status"}
  /\ request'.id \in DOMAIN remittances_db
  /\ remittances_db[request'.id].corridor_id \in DOMAIN corridors_db
  /\ ~ corridors_db[remittances_db[request'.id].corridor_id].is_active

\* C26: a step that deactivates a corridor leaves every stored remittance as
\* it was; and a partial update of the status alone of a remittance whose
\* corridor is inactive succeeds, changing that status and nothing else
C26_NoCascade ==
  [][/\ C26_Deactivates => remittances_db' = remittances_db
     /\ C26_StatusOnly =>
          /\ IsSuccess(response')
          /\ remittances_db' =
               [remittances_db EXCEPT ![request'.id].status = request'.body["status"]]
          /\ corridors_db' = corridors_db]_vars

\* corridor 4 was deactivated and then its pending remittance 4 completed
C26_Witness ==
  /\ request.op = "update_remittance"
  /\ request.id = 4
  /\ DOMAIN request.body = {"status"}
  /\ IsSuccess(response)
  /\ remittances_db[4].corridor_id = 4
  /\ ~ corridors_db[4].is_active
  /\ remittances_db[4] = [SeedRemittances[4] EXCEPT !.status = "completed"]


\* the code is REM-, the creation date as YYYYMMDD, a dash and the identifier
\* in decimal, padded with zeros to three digits and longer from 1000 on
C27_Derived(r) ==
  LET number == Digits(r.id)
      padded == IF Len(number) >= 3 THEN number
                ELSE IF Len(number) = 2 THEN <<"0">> \o number
                ELSE <<"0", "0">> \o number
  IN r.reference_code =
       <<"R", "E", "M", "-">> \o Digits(DateOf(r.created_at)) \o <<"-">> \o padded

\* C27: in every reachable state no two stored remittances have the same
\* reference code, the seeded ones and those numbered above 999 included, and
\* every code is made of the creation date and the padded identifier of its
\* remittance
C27_ReferenceCodesUnique ==
  /\ \A i \in DOMAIN remittances_db : \A j \in DOMAIN remittances_db :
       remittances_db[i].reference_code = remittances_db[j].reference_code => i = j
  /\ \A i \in DOMAIN remittances_db :
       remittances_db[i].id = i /\ C27_Derived(remittances_db[i])

\* remittances 999 and 1000 were created on the same day: REM-20240101-999
\* and REM-20240101-1000
C27_Witness ==
  /\ {999, 1000} \subseteq DOMAIN remittances_db
  /\ Len(remittances_db[999].reference_code) = 16
  /\ Len(remittances_db[1000].reference_code) = 17
  /\ SubSeq(remittances_db[1000].reference_code, 13, 17) = <<"-", "1", "0", "0", "0">>
  /\ remittances_db[999].created_at = remittances_db[1000].created_at


\* the step answers a replacement of remittance k, or a partial update of it
\* that gives an amount, a corridor or the express flag
C28_Recomputes(k) ==
  /\ handled' = handled + 1
  /\ request'.id = k
  /\ \/ request'.op = "replace_remittance"
     \/ /\ request'.op = "update_remittance"
        /\ DOMAIN request'.body \cap {"amount", "corridor_id", "is_express"} # {}

\* C28: a replacement or a partial update of a corridor, of its base fee
\* percentage as of any other field, leaves every stored remittance as it
\* was; the fee of a stored remittance changes only in a step that replaces
\* that remittance or updates its amount, its corridor or its express flag
C28_CorridorUpdateKeepsFees ==
  [][/\ (request'.op \in {"replace_corridor", "update_corridor"}
           /\ handled' = handled + 1) =>
          remittances_db' = remittances_db
     /\ \A k \in DOMAIN remittances_db \cap DOMAIN remittances_db' :
          remittances_db'[k].fee # remittances_db[k].fee => C28_Recomputes(k)]_vars

\* the base fee of corridor 4 went from its seeded value to 5.0% and the
\* status of remittance 4 was then updated: its fee is still the seeded one,
\* not the one 5.0% gives
C28_Witness ==
  /\ request.op = "update_remittance"
  /\ request.id = 4
  /\ DOMAIN request.body = {"status"}
  /\ IsSuccess(response)
  /\ corridors_db[4].base_fee_percentage = 50
  /\ SeedCorridors[4].base_fee_percentage # 50
  /\ remittances_db[4].corridor_id = 4
  /\ remittances_db[4].fee = SeedRemittances[4].fee
  /\ remittances_db[4].fee # _calculate_fee(remittances_db[4].amount, 4,
                                             remittances_db[4].is_express)


RECURSIVE C29_Concat(_, _)
\* the remittances of the item lists of the first n answers, one list after
\* the other
C29_Concat(answers, n) ==
  IF n = 0 THEN <<>>
  ELSE C29_Concat(answers, n - 1)
         \o [i \in DOMAIN answers[n].items |-> answers[n].items[i].remittance]

\* C29: for one store, one set of filters, one sort order and one page size,
\* the item lists of pages 1 .. pages, put one after the other, are the
\* sorted filtered sequence; every matching record is on exactly one page,
\* and every page before the last is full
C29_PagesPartition ==
  (request.op = "list_remittances_pages") =>
    LET per_page == request.body["per_page"]
        sorting == SortingParams(request.body)
        whole == sort(_apply_filters(items, filters), sorting.sort_by,
                      sorting.order = "desc")
        matching == {whole[i].id : i \in DOMAIN whole}
        Places(k) == {<<p, i>> \in (DOMAIN result) \X (1 .. per_page) :
                        /\ i \in DOMAIN result[p].items
                        /\ result[p].items[i].remittance.id = k}
    IN /\ items = values(remittances_db)
       /\ Len(result) = result[1].pages
       /\ C29_Concat(result, Len(result)) = whole
       /\ \A k \in matching : Cardinality(Places(k)) = 1
       /\ \A p \in DOMAIN result :
            /\ result[p].page = p
            /\ result[p].total = Len(whole)
            /\ p < Len(result) => Len(result[p].items) = per_page
            /\ Len(result[p].items) <= per_page

\* three remittances listed by amount, two to a page: page 1 is full, page 2
\* holds the third
C29_Witness ==
  /\ request.op = "list_remittances_pages"
  /\ request.body["per_page"] = 2
  /\ "sort_by" \in DOMAIN request.body
  /\ request.body["sort_by"] = "amount"
  /\ DOMAIN filters = {}
  /\ Len(result) = 2
  /\ Len(result[1].items) = 2
  /\ Len(result[2].items) = 1
  /\ result[1].has_next
  /\ ~ result[2].has_next


\* the step answers a replacement or a partial update of a stored remittance
\* that names a stored corridor which is inactive
C30_NamesInactive ==
  /\ handled' = handled + 1
  /\ request'.op \in {"replace_remittance", "update_remittance"}
  /\ request'.id \in DOMAIN remittances_db
  /\ "corridor_id" \in DOMAIN request'.body
  /\ request'.body["corridor_id"] \in DOMAIN corridors_db
  /\ ~ corridors_db[request'.body["corridor_id"]].is_active

\* C30: a replacement of a remittance, and a partial update that gives a
\* corridor_id, are refused as invalid whenever the corridor they name is
\* inactive, also when it is the corridor the remittance references already;
\* the remittances stay as they were
C30_InactiveCorridorRefused ==
  [][C30_NamesInactive =>
       /\ IsValidationError(response')
       /\ response'.detail = "corridor_inactive"
       /\ remittances_db' = remittances_db]_vars

\* corridor 4 was deactivated, and a partial update of its remittance 4 that
\* names corridor 4 again was refused
C30_Witness ==
  /\ request.op = "update_remittance"
  /\ request.id = 4
  /\ DOMAIN request.body = {"corridor_id"}
  /\ request.body["corridor_id"] = 4
  /\ ~ corridors_db[4].is_active
  /\ response.detail = "corridor_inactive"
  /\ remittances_db[4] = SeedRemittances[4]
  /\ remittances_db[4].corridor_id = 4

=============================================================================
